---- MODULE Spec2Model ----
(***************************************************************************)
(* Invoice upload workspace: client-side ingestion (UploadStore in         *)
(* components/UploadPage/PDFViewer.tsx), file deletion, processing-history *)
(* clearing, PDF attachment (InvoiceViewer) and submission                 *)
(* (components/SubmitInvoices.tsx), over the remote record store           *)
(* (InvoiceUploadJob, Invoice, SubmittedInvoice) and object storage.       *)
(*                                                                         *)
(* A step of the model is one turn of the browser event loop: the code     *)
(* that runs from the arrival of one awaited response (or one user event)  *)
(* up to the next await.  The remote effect of a call and the arrival of   *)
(* its response are one step.  Every remote call may fail.  The user       *)
(* starts an operation only while no other operation is running; the       *)
(* views (subscription pushes, list results) lag behind the store.         *)
(***************************************************************************)
EXTENDS Integers, Sequences, FiniteSets, TLC

\* ------------------------------------------------------------------ bounds
MaxFiles == 1        \* files uploaded over the whole behaviour
MaxRows == 3         \* data rows of one file
MaxPdfs == 2         \* PDF blobs uploaded over the whole behaviour
MaxSubmitted == 2    \* SubmittedInvoice creates accepted by the store
MaxSelected == 2     \* files uploaded over a behaviour of SpecSelect
\* processInvoiceFile uses batchSize = 25 (PDFViewer.tsx:863); the model
\* scales it down so that one file spans several batches.
batchSize == 2

VARIABLES
    jobs,            \* InvoiceUploadJob table: job id -> record
    invoiceTbl,      \* Invoice table: invoice id -> record
    submitted,       \* SubmittedInvoice table: set of records
    storage,         \* object storage: set of paths
    nextId,          \* ids and timestamps handed out so far, per kind
    files,           \* UploadStore state: listed storage paths
    processingJobs,  \* UploadStore state: job ids of the last subscription push
    error,           \* UploadStore state: error banner
    deletingFiles,   \* UploadStore state: paths being deleted
    invoices,        \* InvoiceViewer state: Invoice snapshot, id -> record
    loading,         \* InvoiceViewer state
    refreshing,      \* a refreshInvoices() call is in flight
    ing,             \* handleFileSelect / processInvoiceFile run
    del,             \* handleDeleteFile run
    sub,             \* handleSubmitInvoices run and SubmitInvoices state
    rawData,         \* downloadAndParseFile: the raw rows read from the file
    validated,       \* downloadAndParseFile: the rows validateInvoiceData returned
    uploadProgress,  \* UploadStore state: one progress item per selected file
    uploadingPdfs,   \* InvoiceViewer state: invoice ids with a PDF upload running
    deletingPdfs     \* InvoiceViewer state: invoice ids with a PDF delete running

vars == <<jobs, invoiceTbl, submitted, storage, nextId, files, processingJobs,
          error, deletingFiles, invoices, loading, refreshing,
          ing, del, sub, rawData, validated,
          uploadProgress, uploadingPdfs, deletingPdfs>>

\* ----------------------------------------------------------------- helpers
Min(a, b) == IF a < b THEN a ELSE b

\* null of an id-valued field
NULL == 0

CsvPath(k) == <<"csv", k>>
PdfPath(k) == <<"pdf", k>>

\* the keys of a table in ascending order (the order a list call returns)
RECURSIVE SetToSeq(_)
SetToSeq(S) ==
    IF S = {} THEN <<>>
    ELSE LET m == CHOOSE x \in S : \A y \in S : x <= y
         IN <<m>> \o SetToSeq(S \ {m})

\* a table without one key
Remove(tbl, k) == [x \in DOMAIN tbl \ {k} |-> tbl[x]]

\* a table with one more key
Put(tbl, k, v) == [x \in DOMAIN tbl \cup {k} |-> IF x = k THEN v ELSE tbl[x]]

EmptyTbl == [x \in {} |-> NULL]

NoError == [msg |-> "none", failed |-> 0, total |-> 0]
Err(m) == [msg |-> m, failed |-> 0, total |-> 0]

\* rows as validateInvoiceData returns them: isValid and the error list
ValidRow ==
    [isValid |-> TRUE, validationErrors |-> <<>>, business |-> "fields"]
InvalidRow ==
    [isValid |-> FALSE, validationErrors |-> <<"invoice_id">>,
     business |-> "fields"]
ParsedRow == {ValidRow, InvalidRow}

RowLists == UNION {[1..n -> ParsedRow] : n \in 0..MaxRows}

\* ----------------------------------------------------------- initial state
NoPath == <<"none", 0>>

NoUpdate ==
    [id |-> NULL, status |-> "none", totalInvoices |-> 0,
     successfulInvoices |-> 0, failedInvoices |-> 0, errorMessage |-> "none"]

\* per row of the file: how many times something happened to it
NoRows == [r \in 1..MaxRows |-> 0]
Bump(f, S) == [r \in DOMAIN f |-> IF r \in S THEN f[r] + 1 ELSE f[r]]

IngIdle ==
    [pc |-> "idle", queue |-> 0, path |-> NoPath, job |-> NULL, rows |-> <<>>,
     i |-> 0, inflight |-> {}, successfulCount |-> 0, failedCount |-> 0,
     issued |-> NoRows, counted |-> NoRows, rejected |-> {},
     errMsg |-> "none", updateData |-> NoUpdate, thrown |-> FALSE]

DelIdle ==
    [pc |-> "idle", path |-> NoPath, associatedJobs |-> <<>>, job |-> NULL,
     pending |-> {}, total |-> 0, invoiceFailed |-> 0, failedJobs |-> {},
     jobDeletes |-> {}, removed |-> FALSE]

SubIdle ==
    [pc |-> "idle", validInvoices |-> <<>>, i |-> 0, successCount |-> 0,
     failCount |-> 0, errors |-> 0, deleteSuccessCount |-> 0,
     copied |-> {}, copyFailed |-> {}, deletes |-> {}, deleteFailed |-> {},
     isSubmitting |-> FALSE, submitMessage |-> "none", submitError |-> "none"]

Init ==
    /\ jobs = EmptyTbl
    /\ invoiceTbl = EmptyTbl
    /\ submitted = {}
    /\ storage = {}
    /\ nextId = [job |-> 1, inv |-> 1, csv |-> 1, pdf |-> 1, sub |-> 1]
    /\ files = {}
    /\ processingJobs = {}
    /\ error = NoError
    /\ deletingFiles = {}
    /\ invoices = EmptyTbl
    /\ loading = TRUE
    /\ refreshing = FALSE
    /\ ing = IngIdle
    /\ del = DelIdle
    /\ sub = SubIdle
    /\ rawData = <<>>
    /\ validated = <<>>
    /\ uploadProgress = <<>>
    /\ uploadingPdfs = {}
    /\ deletingPdfs = {}

\* no handler is between its first and its last step
Free == ing.pc = "idle" /\ del.pc = "idle" /\ sub.pc = "idle"

\* ------------------------------------------------- views (live subscriptions)
\* InvoiceUploadJob.observeQuery pushes the full current result set
ObserveJobs ==
    /\ processingJobs # DOMAIN jobs
    /\ processingJobs' = DOMAIN jobs
    /\ UNCHANGED <<rawData, validated, uploadProgress, uploadingPdfs,
                   deletingPdfs>>
    /\ UNCHANGED <<jobs, invoiceTbl, submitted, storage, nextId, files, error,
                   deletingFiles, invoices, loading, refreshing,
                   ing, del, sub>>

\* Invoice.observeQuery pushes the full current result set
ObserveInvoices ==
    /\ invoices # invoiceTbl \/ loading
    /\ invoices' = invoiceTbl
    /\ loading' = FALSE
    /\ UNCHANGED <<rawData, validated, uploadProgress, uploadingPdfs,
                   deletingPdfs>>
    /\ UNCHANGED <<jobs, invoiceTbl, submitted, storage, nextId, files,
                   processingJobs, error, deletingFiles, refreshing,
                   ing, del, sub>>

\* the response of a refreshInvoices() call that was not awaited
RefreshInvoices(ok) ==
    /\ refreshing
    /\ refreshing' = FALSE
    /\ loading' = FALSE
    /\ invoices' = IF ok THEN invoiceTbl ELSE invoices
    /\ UNCHANGED <<rawData, validated, uploadProgress, uploadingPdfs,
                   deletingPdfs>>
    /\ UNCHANGED <<jobs, invoiceTbl, submitted, storage, nextId, files,
                   processingJobs, error, deletingFiles,
                   ing, del, sub>>

\* loadFiles from the refresh button
LoadFiles(ok) ==
    /\ files' = IF ok THEN storage ELSE files
    /\ error' = IF ok THEN NoError ELSE Err("Failed to load files")
    /\ files' # files \/ error' # error
    /\ UNCHANGED <<rawData, validated, uploadProgress, uploadingPdfs,
                   deletingPdfs>>
    /\ UNCHANGED <<jobs, invoiceTbl, submitted, storage, nextId,
                   processingJobs, deletingFiles, invoices, loading,
                   refreshing, ing, del, sub>>

\* ---------------------------------------------------------------- validation
\* Strings are sequences of one-character strings.
Digits == <<"0", "1", "2", "3", "4", "5", "6", "7", "8", "9">>
LowerCase ==
    <<"a", "b", "c", "d", "e", "f", "g", "h", "i", "j", "k", "l", "m",
      "n", "o", "p", "q", "r", "s", "t", "u", "v", "w", "x", "y", "z">>
UpperCase ==
    <<"A", "B", "C", "D", "E", "F", "G", "H", "I", "J", "K", "L", "M",
      "N", "O", "P", "Q", "R", "S", "T", "U", "V", "W", "X", "Y", "Z">>

Range(seq) == {seq[k] : k \in DOMAIN seq}
IndexOf(seq, c) == CHOOSE k \in DOMAIN seq : seq[k] = c

\* the regular-expression classes the validator uses; the i flag adds the
\* other case of every letter
Digit == Range(Digits)
HexDigit == Digit \cup {"a", "b", "c", "d", "e", "f"}
                  \cup {"A", "B", "C", "D", "E", "F"}
Rep(class, n) == [k \in 1..n |-> class]

\* RegExp.prototype.test for an anchored pattern of single-character classes
Test(regex, str) ==
    /\ Len(str) = Len(regex)
    /\ \A k \in 1..Len(regex) : str[k] \in regex[k]

\* String.prototype.toUpperCase
ToUpperCase(str) ==
    [k \in 1..Len(str) |->
        IF str[k] \in Range(LowerCase)
        THEN UpperCase[IndexOf(LowerCase, str[k])] ELSE str[k]]

\* String.prototype.trim
WhiteSpace == {" ", "\t", "\r", "\n"}
RECURSIVE TrimStart(_)
TrimStart(str) ==
    IF str # <<>> /\ Head(str) \in WhiteSpace THEN TrimStart(Tail(str)) ELSE str
RECURSIVE TrimEnd(_)
TrimEnd(str) ==
    IF str # <<>> /\ str[Len(str)] \in WhiteSpace
    THEN TrimEnd(SubSeq(str, 1, Len(str) - 1)) ELSE str
Trim(str) == TrimEnd(TrimStart(str))

\* a raw row is a function from column names to strings; a column the file
\* does not have is not in its domain
Columns ==
    {"invoice_id", "seller_id", "debtor_id", "currency", "amount", "product",
     "issue_date", "due_date"}

\* !row[key]: the value is undefined or the empty string
Falsy(row, key) == key \notin DOMAIN row \/ row[key] = <<>>

\* String(row[key]): undefined is converted to "undefined"
StringOf(row, key) ==
    IF key \in DOMAIN row THEN row[key]
    ELSE <<"u", "n", "d", "e", "f", "i", "n", "e", "d">>

\* the decimal value of a digit string
RECURSIVE DigitsValue(_)
DigitsValue(str) ==
    IF str = <<>> THEN 0
    ELSE 10 * DigitsValue(SubSeq(str, 1, Len(str) - 1))
         + (IndexOf(Digits, str[Len(str)]) - 1)

\* the longest prefix of str made of digits
RECURSIVE DigitPrefix(_)
DigitPrefix(str) ==
    IF str # <<>> /\ Head(str) \in Digit
    THEN <<Head(str)>> \o DigitPrefix(Tail(str)) ELSE <<>>

Drop(str, n) == SubSeq(str, n + 1, Len(str))

\* Numbers are NaN, an infinity (m is its sign) or m * 10^e with m not divisible
\* by 10 (0 is m = 0, e = 0); the finite values of the model are within the
\* exact range of a double.
NaN == [nan |-> TRUE, inf |-> FALSE, m |-> 0, e |-> 0]
Infinity(sign) == [nan |-> FALSE, inf |-> TRUE, m |-> sign, e |-> 0]
RECURSIVE Number(_, _)
Number(m, e) ==
    IF m = 0 THEN [nan |-> FALSE, inf |-> FALSE, m |-> 0, e |-> 0]
    ELSE IF m % 10 = 0 THEN Number(m \div 10, e + 1)
    ELSE [nan |-> FALSE, inf |-> FALSE, m |-> m, e |-> e]
Zero == Number(0, 0)

InfinityLiteral == <<"I", "n", "f", "i", "n", "i", "t", "y">>

\* parseFloat: leading white space is skipped, then the longest prefix that is
\* a decimal literal (sign, then Infinity or digits, fraction, exponent) is
\* converted; NaN when there is none
parseFloat(string) ==
    LET s0 == TrimStart(string)
        signed == s0 # <<>> /\ Head(s0) \in {"+", "-"}
        sign == IF signed /\ Head(s0) = "-" THEN -1 ELSE 1
        s1 == IF signed THEN Tail(s0) ELSE s0
        int == DigitPrefix(s1)
        s2 == Drop(s1, Len(int))
        dotted == s2 # <<>> /\ Head(s2) = "."
        frac == IF dotted THEN DigitPrefix(Tail(s2)) ELSE <<>>
        s3 == IF dotted THEN Drop(s2, 1 + Len(frac)) ELSE s2
        expSigned == Len(s3) >= 2 /\ s3[1] \in {"e", "E"} /\ s3[2] \in {"+", "-"}
        expDigits == IF s3 # <<>> /\ s3[1] \in {"e", "E"}
                     THEN DigitPrefix(Drop(s3, IF expSigned THEN 2 ELSE 1))
                     ELSE <<>>
        exp == IF expSigned /\ s3[2] = "-"
               THEN 0 - DigitsValue(expDigits) ELSE DigitsValue(expDigits)
    IN IF SubSeq(s1, 1, Min(Len(s1), Len(InfinityLiteral))) = InfinityLiteral
       THEN Infinity(sign)
       ELSE IF int = <<>> /\ frac = <<>> THEN NaN
       ELSE Number(sign * DigitsValue(int \o frac), exp - Len(frac))

isNaN(n) == n.nan

\* amount <= 0 (false for NaN)
NotPositive(n) == ~n.nan /\ n.m <= 0

\* /^[0-9a-f]{8}-[0-9a-f]{4}-[1-5][0-9a-f]{3}-[89ab][0-9a-f]{3}-[0-9a-f]{12}$/i
uuidRegex ==
    Rep(HexDigit, 8) \o <<{"-"}>> \o Rep(HexDigit, 4) \o <<{"-"}>>
    \o <<{"1", "2", "3", "4", "5"}>> \o Rep(HexDigit, 3) \o <<{"-"}>>
    \o <<{"8", "9", "a", "b", "A", "B"}>> \o Rep(HexDigit, 3) \o <<{"-"}>>
    \o Rep(HexDigit, 12)

\* variant: the pattern without its i flag
isValidUUID_LowerOnly(uuid) ==
    /\ Test(uuidRegex, uuid)
    /\ \A k \in 1..Len(uuid) : uuid[k] \notin Range(UpperCase)

isValidUUID(uuid) == Test(uuidRegex, uuid)

\* /^\d{4}-\d{2}-\d{2}$/
dateRegex ==
    Rep(Digit, 4) \o <<{"-"}>> \o Rep(Digit, 2) \o <<{"-"}>> \o Rep(Digit, 2)

IsLeapYear(y) == y % 4 = 0 /\ (y % 100 # 0 \/ y % 400 = 0)
DaysInMonth(y, m) ==
    IF m = 2 THEN (IF IsLeapYear(y) THEN 29 ELSE 28)
    ELSE IF m \in {4, 6, 9, 11} THEN 30 ELSE 31

\* MakeDay: the day number (days since 1970-01-01) of day d of month m of
\* year y; a d past the end of the month runs into the next month
MakeDay(y, m, d) ==
    LET yy == IF m <= 2 THEN y - 1 ELSE y
        era == yy \div 400
        yoe == yy - era * 400
        doy == (153 * (IF m > 2 THEN m - 3 ELSE m + 9) + 2) \div 5 + d - 1
        doe == yoe * 365 + yoe \div 4 - yoe \div 100 + doy
    IN era * 146097 + doe - 719468

\* YearFromTime, MonthFromTime, DateFromTime of a day number
DateFromDay(z) ==
    LET zz == z + 719468
        era == zz \div 146097
        doe == zz - era * 146097
        yoe == (doe - doe \div 1460 + doe \div 36524 - doe \div 146096) \div 365
        doy == doe - (365 * yoe + yoe \div 4 - yoe \div 100)
        mp == (5 * doy + 2) \div 153
        m == IF mp < 10 THEN mp + 3 ELSE mp - 9
    IN [year |-> yoe + era * 400 + (IF m <= 2 THEN 1 ELSE 0),
        month |-> m,
        day |-> doy - (153 * mp + 2) \div 5 + 1]

InvalidDate == [nan |-> TRUE, day |-> 0]

\* new Date(dateString).  A date-only ISO string is UTC midnight of that day.
\* A day of month that exists in no month (00, 32) or a month outside 01-12
\* is an Invalid Date; a day up to 31 that the month does not have is
\* implementation-defined: a lenient parser rolls it into the next month, a
\* strict one returns an Invalid Date.  So is every string of another form;
\* the validator's format test rejects those whatever the parser answered.
NewDate(dateString, lenient) ==
    IF Test(dateRegex, dateString)
    THEN LET y == DigitsValue(SubSeq(dateString, 1, 4))
             m == DigitsValue(SubSeq(dateString, 6, 7))
             d == DigitsValue(SubSeq(dateString, 9, 10))
         IN IF m \in 1..12 /\ d \in 1..DaysInMonth(y, m)
            THEN [nan |-> FALSE, day |-> MakeDay(y, m, d)]
            ELSE IF lenient /\ m \in 1..12 /\ d \in 1..31
            THEN [nan |-> FALSE, day |-> MakeDay(y, m, d)]
            ELSE InvalidDate
    ELSE IF lenient THEN [nan |-> FALSE, day |-> 0] ELSE InvalidDate

isValidDate(dateString, lenient) ==
    LET date == NewDate(dateString, lenient)
    IN IF date.nan THEN FALSE ELSE Test(dateRegex, dateString)

\* the decimal digits of n, padded with zeros to the width
RECURSIVE Pad(_, _)
Pad(n, width) ==
    IF width = 0 THEN <<>>
    ELSE Pad(n \div 10, width - 1) \o <<Digits[(n % 10) + 1]>>

\* date.toISOString().split('T')[0] for a year of four digits
formatDateString(dateString, lenient) ==
    LET date == DateFromDay(NewDate(dateString, lenient).day)
    IN Pad(date.year, 4) \o <<"-">> \o Pad(date.month, 2) \o <<"-">>
       \o Pad(date.day, 2)

\* a <= b on strings of digits and hyphens, by code unit
CodeUnits == <<"-">> \o Digits
RECURSIVE StrLeq(_, _)
StrLeq(a, b) ==
    IF a = <<>> THEN TRUE
    ELSE IF b = <<>> THEN FALSE
    ELSE IF Head(a) = Head(b) THEN StrLeq(Tail(a), Tail(b))
    ELSE IndexOf(CodeUnits, Head(a)) < IndexOf(CodeUnits, Head(b))

validCurrencies ==
    {<<"U", "S", "D">>, <<"E", "U", "R">>, <<"G", "B", "P">>,
     <<"J", "P", "Y">>, <<"C", "A", "D">>, <<"A", "U", "D">>,
     <<"C", "H", "F">>, <<"C", "N", "Y">>}

\* one entry of the error list: the row number and the rule it names
RowError(rowNumber, rule) == [row |-> rowNumber, rule |-> rule]

\* variant: an error is recorded only while the list is still empty
Push_FirstOnly(errors, bad, e) == IF bad /\ errors = <<>> THEN <<e>> ELSE errors

\* if (bad) errors.push(e)
Push(errors, bad, e) == IF bad THEN Append(errors, e) ELSE errors

\* the rules of the single fields, as validateInvoiceData tests them
BadUuid(row, key) == Falsy(row, key) \/ ~isValidUUID(row[key])
BadCurrency(row) ==
    Falsy(row, "currency") \/ ToUpperCase(row["currency"]) \notin validCurrencies
BadAmount(row) ==
    LET amount == parseFloat(StringOf(row, "amount"))
    IN isNaN(amount) \/ NotPositive(amount)
BadProduct(row) == Falsy(row, "product") \/ Len(Trim(row["product"])) = 0
BadDate(row, key, lenient) == Falsy(row, key) \/ ~isValidDate(row[key], lenient)

\* the errors validateInvoiceData has pushed when it reaches the cross-field
\* rule
FieldErrors(row, rowNumber, lenient) ==
    LET e1 == Push(<<>>, BadUuid(row, "invoice_id"),
                   RowError(rowNumber, "invoice_id"))
        e2 == Push(e1, BadUuid(row, "seller_id"),
                   RowError(rowNumber, "seller_id"))
        e3 == Push(e2, BadUuid(row, "debtor_id"),
                   RowError(rowNumber, "debtor_id"))
        e4 == Push(e3, BadCurrency(row), RowError(rowNumber, "currency"))
        e5 == Push(e4, BadAmount(row), RowError(rowNumber, "amount"))
        e6 == Push(e5, BadProduct(row), RowError(rowNumber, "product"))
        e7 == Push(e6, BadDate(row, "issue_date", lenient),
                   RowError(rowNumber, "issue_date"))
    IN Push(e7, BadDate(row, "due_date", lenient),
            RowError(rowNumber, "due_date"))

\* invoice.issueDate && invoice.dueDate && invoice.dueDate <= invoice.issueDate
DueNotAfterIssue(issueDate, dueDate) ==
    /\ issueDate # <<>>
    /\ dueDate # <<>>
    /\ StrLeq(dueDate, issueDate)

\* variant: a row with errors is still flagged valid
IsValidOf_Always(errors) == TRUE

\* isValid starts true and is set to false when errors.length > 0
IsValidOf(errors) == ~(Len(errors) > 0)

\* validateInvoiceData: every field that passes its rule is copied (converted)
\* into the invoice, every other keeps its default; lenient is the host's
\* Date parser
validateInvoiceData(row, rowNumber, lenient) ==
    LET issueDate == IF BadDate(row, "issue_date", lenient) THEN <<>>
                     ELSE formatDateString(row["issue_date"], lenient)
        dueDate == IF BadDate(row, "due_date", lenient) THEN <<>>
                   ELSE formatDateString(row["due_date"], lenient)
        errors == Push(FieldErrors(row, rowNumber, lenient),
                       DueNotAfterIssue(issueDate, dueDate),
                       RowError(rowNumber, "due_after_issue"))
    IN [invoiceId |-> IF BadUuid(row, "invoice_id") THEN <<>>
                      ELSE row["invoice_id"],
        sellerId |-> IF BadUuid(row, "seller_id") THEN <<>>
                     ELSE row["seller_id"],
        debtorId |-> IF BadUuid(row, "debtor_id") THEN <<>>
                     ELSE row["debtor_id"],
        currency |-> IF BadCurrency(row) THEN <<>>
                     ELSE ToUpperCase(row["currency"]),
        amount |-> IF BadAmount(row) THEN Zero
                   ELSE parseFloat(StringOf(row, "amount")),
        product |-> IF BadProduct(row) THEN <<>> ELSE Trim(row["product"]),
        issueDate |-> issueDate,
        dueDate |-> dueDate,
        isValid |-> IsValidOf(errors),
        validationErrors |-> errors]

\* the strings the rows of the model are made of
Sample ==
    [UuidV4 |-> <<"5", "5", "0", "e", "8", "4", "0", "0", "-", "e", "2",
            "9", "b", "-", "4", "1", "d", "4", "-", "a", "7", "1", "6",
            "-", "4", "4", "6", "6", "5", "5", "4", "4", "0", "0", "0",
            "1">>,
     UuidV1Upper |-> <<"6", "B", "A", "7", "B", "8", "1", "0", "-", "9",
            "D", "A", "D", "-", "1", "1", "D", "1", "-", "8", "0", "B",
            "4", "-", "0", "0", "C", "0", "4", "F", "D", "4", "3", "0",
            "C", "8">>,
     UuidV7 |-> <<"0", "1", "8", "f", "4", "e", "7", "a", "-", "7", "b",
            "3", "c", "-", "7", "c", "c", "2", "-", "9", "8", "a", "1",
            "-", "3", "b", "5", "f", "6", "a", "7", "d", "8", "e", "9",
            "f">>,
     NotAUuid |-> <<"n", "o", "t", "-", "a", "-", "u", "u", "i", "d">>,
     UuidSeller |-> <<"5", "5", "0", "e", "8", "4", "0", "0", "-", "e",
            "2", "9", "b", "-", "4", "1", "d", "4", "-", "a", "7", "1",
            "6", "-", "4", "4", "6", "6", "5", "5", "4", "4", "0", "0",
            "1", "1">>,
     UuidNil |-> <<"0", "0", "0", "0", "0", "0", "0", "0", "-", "0", "0",
            "0", "0", "-", "0", "0", "0", "0", "-", "0", "0", "0", "0",
            "-", "0", "0", "0", "0", "0", "0", "0", "0", "0", "0", "0",
            "0">>,
     UuidDebtor |-> <<"5", "5", "0", "e", "8", "4", "0", "0", "-", "e",
            "2", "9", "b", "-", "4", "1", "d", "4", "-", "a", "7", "1",
            "6", "-", "4", "4", "6", "6", "5", "5", "4", "4", "0", "0",
            "2", "1">>,
     Usd |-> <<"U", "S", "D">>,
     EurLower |-> <<"e", "u", "r">>,
     Xyz |-> <<"X", "Y", "Z">>,
     Amount1500 |-> <<"1", "5", "0", "0", ".", "5", "0">>,
     AmountZero |-> <<"0">>,
     AmountMinus |-> <<"-", "5">>,
     Amount12abc |-> <<"1", "2", "a", "b", "c">>,
     AmountInfinity |-> <<"I", "n", "f", "i", "n", "i", "t", "y">>,
     AmountText |-> <<"a", "b", "c">>,
     WidgetPadded |-> <<" ", "W", "i", "d", "g", "e", "t", " ">>,
     Blank |-> <<" ", " ">>,
     Jan14 |-> <<"2", "0", "2", "4", "-", "0", "1", "-", "1", "4">>,
     Jan15 |-> <<"2", "0", "2", "4", "-", "0", "1", "-", "1", "5">>,
     Jan16 |-> <<"2", "0", "2", "4", "-", "0", "1", "-", "1", "6">>,
     Feb30 |-> <<"2", "0", "2", "4", "-", "0", "2", "-", "3", "0">>,
     Mar01 |-> <<"2", "0", "2", "4", "-", "0", "3", "-", "0", "1">>,
     SlashDate |-> <<"0", "1", "/", "1", "5", "/", "2", "0", "2", "4">>]

\* a column value that stands for "the file has no such column"
Absent == <<"(absent)">>

RawRecords ==
    [invoice_id : {Sample.UuidV4, Sample.UuidV1Upper, Sample.UuidV7,
                   Sample.NotAUuid, Absent},
     seller_id : {Sample.UuidSeller, Sample.UuidNil},
     debtor_id : {Sample.UuidDebtor, <<>>},
     currency : {Sample.Usd, Sample.EurLower, Sample.Xyz},
     amount : {Sample.Amount1500, Sample.AmountZero, Sample.AmountMinus,
               Sample.Amount12abc, Sample.AmountInfinity, Sample.AmountText},
     product : {Sample.WidgetPadded, Sample.Blank, <<>>},
     issue_date : {Sample.Jan15, Sample.Feb30, Absent},
     due_date : {Sample.Jan14, Sample.Jan15, Sample.Jan16, Sample.Mar01,
                 Sample.SlashDate}]

\* the raw rows a file can hold
RawRows ==
    {[c \in {k \in Columns : r[k] # Absent} |-> r[c]] : r \in RawRecords}

\* downloadAndParseFile, once the file is read:
\* rawData.map((row, index) => validateInvoiceData(row, index + 2))
ValidateRows(lenient) ==
    /\ ing.pc = "parse"
    /\ rawData # <<>>
    /\ validated = <<>>
    /\ validated' = [k \in 1..Len(rawData) |->
                        validateInvoiceData(rawData[k], k + 1, lenient)]
    /\ UNCHANGED <<jobs, invoiceTbl, submitted, storage, nextId, files,
                   processingJobs, error, deletingFiles, invoices, loading,
                   refreshing, ing, del, sub, rawData,
                   uploadProgress, uploadingPdfs, deletingPdfs>>

\* ---------------------------------------------------------------- ingestion
\* the progress item handleFileSelect creates for each selected file
InitialProgress ==
    [progress |-> 0, isUploading |-> TRUE, isProcessing |-> FALSE,
     processingProgress |-> 0]

\* the position in the selection of the file handleFileSelect is at
Index == Len(uploadProgress) - ing.queue + 1

\* prev.map((item, i) => i === index ? {...item, ...} : item): the updates
\* handleFileSelect and processInvoiceFile make to the item of their file
Transferred(prev, index, progress) ==
    [i \in DOMAIN prev |->
        IF i = index THEN [prev[i] EXCEPT !.progress = progress] ELSE prev[i]]

Uploaded(prev, index) ==
    [i \in DOMAIN prev |->
        IF i = index
        THEN [prev[i] EXCEPT !.isUploading = FALSE, !.progress = 100]
        ELSE prev[i]]

Processing(prev, index, percent) ==
    [i \in DOMAIN prev |->
        IF i = index
        THEN [prev[i] EXCEPT !.isProcessing = TRUE,
                             !.processingProgress = percent]
        ELSE prev[i]]

ProcessingDone(prev, index) ==
    [i \in DOMAIN prev |->
        IF i = index
        THEN [prev[i] EXCEPT !.isProcessing = FALSE,
                             !.processingProgress = 100]
        ELSE prev[i]]

\* the catch block of processInvoiceFile
ProcessingFailed(prev, index) ==
    [i \in DOMAIN prev |->
        IF i = index
        THEN [prev[i] EXCEPT !.isProcessing = FALSE,
                             !.processingProgress = 0]
        ELSE prev[i]]

\* the catch block of handleFileSelect
UploadFailed(prev, index) ==
    [i \in DOMAIN prev |->
        IF i = index
        THEN [prev[i] EXCEPT !.isUploading = FALSE, !.isProcessing = FALSE,
                             !.progress = 0]
        ELSE prev[i]]

\* Math.ceil(invoiceData.length / batchSize)
totalBatches(st) == (Len(st.rows) + batchSize - 1) \div batchSize

\* the percentage after the batches before row st.i + 1: 40 after parsing,
\* 40 + (currentBatchNumber / totalBatches) * 50 after a batch (in whole
\* percent)
BatchProgress(st) ==
    IF st.i = 0 THEN 40
    ELSE 40 + ((st.i \div batchSize) * 50) \div totalBatches(st)

\* variant: no successful row always means FAILED
finalStatus_ZeroIsFailed(successfulCount, failedCount) ==
    IF successfulCount = 0 THEN "FAILED" ELSE "COMPLETED"

\* terminal status derived after the batch loop
finalStatus(successfulCount, failedCount) ==
    IF failedCount = 0 THEN "COMPLETED"
    ELSE IF successfulCount = 0 THEN "FAILED" ELSE "COMPLETED"

\* the update written after the batch loop
updateData(st) ==
    [id |-> st.job,
     status |-> finalStatus(st.successfulCount, st.failedCount),
     totalInvoices |-> Len(st.rows),
     successfulInvoices |-> st.successfulCount,
     failedInvoices |-> st.failedCount,
     errorMessage |-> IF st.failedCount > 0 THEN "summary" ELSE "none"]

\* variant: every remaining row is taken into the batch
BatchOf_Rest(st) == (st.i + 1)..Len(st.rows)

\* the rows of the batch that starts after row st.i
BatchOf(st) == (st.i + 1)..Min(st.i + batchSize, Len(st.rows))

\* batch.map up to the first await of every row: an invalid row is counted as
\* failed without a create, a valid row has its Invoice create issued
batchPromises(st) ==
    LET invalid == {r \in BatchOf(st) : ~st.rows[r].isValid}
        valid == BatchOf(st) \ invalid
    IN [st EXCEPT !.failedCount = @ + Cardinality(invalid),
                  !.counted = Bump(@, invalid),
                  !.inflight = valid,
                  !.issued = Bump(@, valid),
                  !.pc = "settle"]

\* the batch loop from the batch after row st.i, until a create is awaited or
\* the final job update is issued
RECURSIVE RunBatches(_)
RunBatches(st) ==
    IF st.i < Len(st.rows)
    THEN LET b == batchPromises(st)
         IN IF b.inflight # {} THEN b
            ELSE RunBatches([b EXCEPT !.i = @ + batchSize])
    ELSE [st EXCEPT !.pc = "final", !.updateData = updateData(st)]

\* variant: the selection ends with the first file that fails
NextFile_StopOnThrow(st) ==
    IF st.queue > 1 /\ ~st.thrown
    THEN [IngIdle EXCEPT !.pc = "upload", !.queue = st.queue - 1,
                         !.thrown = st.thrown]
    ELSE [IngIdle EXCEPT !.pc = "reload", !.thrown = st.thrown]

\* handleFileSelect: the next file of the selection, or the final loadFiles
NextFile(st) ==
    IF st.queue > 1
    THEN [IngIdle EXCEPT !.pc = "upload", !.queue = st.queue - 1,
                         !.thrown = st.thrown]
    ELSE [IngIdle EXCEPT !.pc = "reload", !.thrown = st.thrown]

\* the user selects n invoice files, while fewer than max files have been
\* uploaded
SelectFiles(n, max) ==
    /\ Free
    /\ nextId.csv + n - 1 <= max
    /\ ing' = [IngIdle EXCEPT !.pc = "upload", !.queue = n]
    /\ uploadProgress' = [k \in 1..n |-> InitialProgress]
    /\ UNCHANGED <<rawData, validated, uploadingPdfs, deletingPdfs>>
    /\ UNCHANGED <<jobs, invoiceTbl, submitted, storage, nextId, files,
                   processingJobs, error, deletingFiles, invoices, loading,
                   refreshing, del, sub>>

HandleFileSelect(n) == SelectFiles(n, MaxFiles)

\* the percentages the progress callback of uploadData reports
Percents == {50, 100}

\* onProgress of the running upload: transferredBytes grows with the transfer
OnProgress(progress) ==
    /\ ing.pc = "upload"
    /\ progress > uploadProgress[Index].progress
    /\ uploadProgress' = Transferred(uploadProgress, Index, progress)
    /\ UNCHANGED <<jobs, invoiceTbl, submitted, storage, nextId, files,
                   processingJobs, error, deletingFiles, invoices, loading,
                   refreshing, ing, del, sub, rawData, validated,
                   uploadingPdfs, deletingPdfs>>

\* uploadData of the current file settles; on success processInvoiceFile
\* starts and issues the job create
UploadData(ok) ==
    /\ ing.pc = "upload"
    /\ IF ok
       THEN /\ storage' = storage \cup {CsvPath(nextId.csv)}
            /\ nextId' = [nextId EXCEPT !.csv = @ + 1]
            /\ ing' = [IngIdle EXCEPT !.pc = "createJob",
                                      !.queue = ing.queue,
                                      !.path = CsvPath(nextId.csv)]
       ELSE /\ UNCHANGED <<storage, nextId>>
            /\ ing' = NextFile([ing EXCEPT !.thrown = TRUE])
    /\ uploadProgress' = IF ok THEN Processing(Uploaded(uploadProgress, Index), Index, 10)
                         ELSE UploadFailed(uploadProgress, Index)
    /\ UNCHANGED <<rawData, validated, uploadingPdfs, deletingPdfs>>
    /\ UNCHANGED <<jobs, invoiceTbl, submitted, files, processingJobs, error,
                   deletingFiles, invoices, loading, refreshing,
                   del, sub>>

\* variant: the job starts as PENDING
NewJob_Pending(path) ==
    [status |-> "PENDING", totalInvoices |-> 0, successfulInvoices |-> 0,
     failedInvoices |-> 0, s3Key |-> path, errorMessage |-> "none"]

\* the job record processInvoiceFile creates
NewJob(path) ==
    [status |-> "PROCESSING", totalInvoices |-> 0, successfulInvoices |-> 0,
     failedInvoices |-> 0, s3Key |-> path, errorMessage |-> "none"]

\* InvoiceUploadJob.create settles
CreateJob(ok) ==
    /\ ing.pc = "createJob"
    /\ IF ok
       THEN /\ jobs' = Put(jobs, nextId.job, NewJob(ing.path))
            /\ nextId' = [nextId EXCEPT !.job = @ + 1]
            /\ ing' = [ing EXCEPT !.job = nextId.job, !.pc = "parse"]
       ELSE \* thrown; the catch has no job reference and re-throws
            /\ jobs' = jobs
            /\ nextId' = nextId
            /\ ing' = NextFile([ing EXCEPT !.thrown = TRUE,
                                           !.errMsg = "exception"])
    /\ uploadProgress' = IF ok THEN Processing(uploadProgress, Index, 20)
                         ELSE UploadFailed(ProcessingFailed(uploadProgress, Index), Index)
    /\ UNCHANGED <<rawData, validated, uploadingPdfs, deletingPdfs>>
    /\ UNCHANGED <<invoiceTbl, submitted, storage, files, processingJobs,
                   error, deletingFiles, invoices, loading, refreshing,
                   del, sub>>

\* downloadAndParseFile settles: the validated rows, or an exception
DownloadAndParseFile(ok, rows) ==
    /\ ing.pc = "parse"
    /\ ok => ing.path \in storage
    /\ ~ok => rows = <<>>
    /\ ing' = IF ok
              THEN RunBatches([ing EXCEPT !.rows = rows, !.i = 0])
              ELSE [ing EXCEPT !.pc = "catch", !.errMsg = "exception"]
    /\ uploadProgress' = IF ok THEN Processing(uploadProgress, Index, BatchProgress(ing'))
                         ELSE uploadProgress
    /\ UNCHANGED <<rawData, validated, uploadingPdfs, deletingPdfs>>
    /\ UNCHANGED <<jobs, invoiceTbl, submitted, storage, nextId, files,
                   processingJobs, error, deletingFiles, invoices, loading,
                   refreshing, del, sub>>

\* the Invoice record created for a row
NewInvoice(job, row) ==
    [uploadJobId |-> job, isValid |-> row.isValid,
     validationErrors |-> row.validationErrors, business |-> row.business,
     pdfS3Key |-> NULL]

\* variant: a rejected create is not counted
CountRow_Lossy(st, r, ok) ==
    IF ok
    THEN [st EXCEPT !.successfulCount = @ + 1, !.counted = Bump(@, {r}),
                    !.inflight = @ \ {r}]
    ELSE [st EXCEPT !.rejected = @ \cup {r}, !.inflight = @ \ {r}]

\* variant: a rejected create ends the batch loop
CountRow_Abort(st, r, ok) ==
    IF ok
    THEN [st EXCEPT !.successfulCount = @ + 1, !.counted = Bump(@, {r}),
                    !.inflight = @ \ {r}]
    ELSE [st EXCEPT !.failedCount = @ + 1, !.counted = Bump(@, {r}),
                    !.rejected = @ \cup {r}, !.inflight = @ \ {r},
                    !.i = Len(st.rows)]

\* variant: a rejected create is issued a second time
CountRow_Retry(st, r, ok) ==
    IF ok
    THEN [st EXCEPT !.successfulCount = @ + 1, !.counted = Bump(@, {r}),
                    !.inflight = @ \ {r}]
    ELSE IF st.issued[r] < 2
    THEN [st EXCEPT !.issued = Bump(@, {r})]
    ELSE [st EXCEPT !.failedCount = @ + 1, !.counted = Bump(@, {r}),
                    !.rejected = @ \cup {r}, !.inflight = @ \ {r}]

\* the continuation of one row's Invoice.create
CountRow(st, r, ok) ==
    IF ok
    THEN [st EXCEPT !.successfulCount = @ + 1, !.counted = Bump(@, {r}),
                    !.inflight = @ \ {r}]
    ELSE [st EXCEPT !.failedCount = @ + 1, !.counted = Bump(@, {r}),
                    !.rejected = @ \cup {r}, !.inflight = @ \ {r}]

\* one Invoice.create of the current batch settles; when it is the last one
\* of the batch, Promise.allSettled resolves and the loop goes on
SettleCreate(r, ok) ==
    /\ ing.pc = "settle"
    /\ r \in ing.inflight
    /\ IF ok
       THEN /\ invoiceTbl' = Put(invoiceTbl, nextId.inv,
                                 NewInvoice(ing.job, ing.rows[r]))
            /\ nextId' = [nextId EXCEPT !.inv = @ + 1]
       ELSE UNCHANGED <<invoiceTbl, nextId>>
    /\ LET st == CountRow(ing, r, ok)
       IN ing' = IF st.inflight = {}
                 THEN RunBatches([st EXCEPT !.i = @ + batchSize])
                 ELSE st
    /\ uploadProgress' = IF ing.inflight = {r}
                         THEN Processing(uploadProgress, Index, BatchProgress(ing'))
                         ELSE uploadProgress
    /\ UNCHANGED <<rawData, validated, uploadingPdfs, deletingPdfs>>
    /\ UNCHANGED <<jobs, submitted, storage, files, processingJobs, error,
                   deletingFiles, invoices, loading, refreshing,
                   del, sub>>

\* the job record after an update
\* variant: the update does not write the total
ApplyUpdate_NoTotal(job, u) ==
    [job EXCEPT !.status = u.status,
                !.successfulInvoices = u.successfulInvoices,
                !.failedInvoices = u.failedInvoices]

ApplyUpdate(job, u) ==
    [job EXCEPT !.status = u.status,
                !.totalInvoices = u.totalInvoices,
                !.successfulInvoices = u.successfulInvoices,
                !.failedInvoices = u.failedInvoices,
                !.errorMessage = IF u.errorMessage = "none" THEN @
                                 ELSE u.errorMessage]

\* variant: a failed final update is thrown into the catch block
FinalUpdate_Rethrow(ok) ==
    /\ ing.pc = "final"
    /\ ok => ing.job \in DOMAIN jobs
    /\ jobs' = IF ok
               THEN [jobs EXCEPT ![ing.job] = ApplyUpdate(@, ing.updateData)]
               ELSE jobs
    /\ ing' = IF ok THEN NextFile([ing EXCEPT !.thrown = FALSE])
              ELSE [ing EXCEPT !.pc = "catch", !.errMsg = "exception"]
    /\ uploadProgress' = IF ok THEN ProcessingDone(uploadProgress, Index)
                         ELSE uploadProgress
    /\ UNCHANGED <<rawData, validated, uploadingPdfs, deletingPdfs>>
    /\ UNCHANGED <<invoiceTbl, submitted, storage, nextId, files,
                   processingJobs, error, deletingFiles, invoices, loading,
                   refreshing, del, sub>>

\* the final InvoiceUploadJob.update settles; a failure is only logged
FinalUpdate(ok) ==
    /\ ing.pc = "final"
    /\ ok => ing.job \in DOMAIN jobs
    /\ jobs' = IF ok
               THEN [jobs EXCEPT ![ing.job] = ApplyUpdate(@, ing.updateData)]
               ELSE jobs
    /\ ing' = NextFile([ing EXCEPT !.thrown = FALSE])
    /\ uploadProgress' = ProcessingDone(uploadProgress, Index)
    /\ UNCHANGED <<rawData, validated, uploadingPdfs, deletingPdfs>>
    /\ UNCHANGED <<invoiceTbl, submitted, storage, nextId, files,
                   processingJobs, error, deletingFiles, invoices, loading,
                   refreshing, del, sub>>

\* variant: the catch block's update does not carry the message
MarkedFailed_NoMessage(job, msg) == [job EXCEPT !.status = "FAILED"]

\* the job record after the catch block's update
MarkedFailed(job, msg) ==
    [job EXCEPT !.status = "FAILED", !.errorMessage = msg]

\* the catch block's update to FAILED settles (its failure is swallowed);
\* the error is re-thrown to handleFileSelect
MarkFailed(ok) ==
    /\ ing.pc = "catch"
    /\ ok => ing.job \in DOMAIN jobs
    /\ jobs' = IF ok
               THEN [jobs EXCEPT ![ing.job] = MarkedFailed(@, ing.errMsg)]
               ELSE jobs
    /\ ing' = NextFile([ing EXCEPT !.thrown = TRUE])
    /\ uploadProgress' = UploadFailed(ProcessingFailed(uploadProgress, Index), Index)
    /\ UNCHANGED <<rawData, validated, uploadingPdfs, deletingPdfs>>
    /\ UNCHANGED <<invoiceTbl, submitted, storage, nextId, files,
                   processingJobs, error, deletingFiles, invoices, loading,
                   refreshing, del, sub>>

\* the loadFiles at the end of handleFileSelect settles
ReloadFiles(ok) ==
    /\ ing.pc = "reload"
    /\ files' = IF ok THEN storage ELSE files
    /\ error' = IF ok THEN NoError ELSE Err("Failed to load files")
    /\ ing' = IngIdle
    /\ UNCHANGED <<rawData, validated, uploadProgress, uploadingPdfs,
                   deletingPdfs>>
    /\ UNCHANGED <<jobs, invoiceTbl, submitted, storage, nextId,
                   processingJobs, deletingFiles, invoices, loading,
                   refreshing, del, sub>>

Ingest ==
    \/ \E n \in 1..MaxFiles : HandleFileSelect(n)
    \/ \E progress \in Percents : OnProgress(progress)
    \/ \E ok \in BOOLEAN : UploadData(ok)
    \/ \E ok \in BOOLEAN : CreateJob(ok)
    \/ \E ok \in BOOLEAN, rows \in RowLists : DownloadAndParseFile(ok, rows)
    \/ \E r \in 1..MaxRows, ok \in BOOLEAN : SettleCreate(r, ok)
    \/ \E ok \in BOOLEAN : FinalUpdate(ok)
    \/ \E ok \in BOOLEAN : MarkFailed(ok)
    \/ \E ok \in BOOLEAN : ReloadFiles(ok)

\* ------------------------------------------------------------ file deletion
\* handleDeleteFile leaves through catch and finally
DelThrow(st, e) ==
    /\ error' = e
    /\ deletingFiles' = deletingFiles \ {st.path}
    /\ del' = DelIdle

\* variant: the file is marked as being deleted before the confirmation
HandleDeleteFile_MarkFirst(p, confirm) ==
    /\ Free
    /\ p \in files
    /\ p \notin deletingFiles
    /\ deletingFiles' = deletingFiles \cup {p}
    /\ IF confirm
       THEN /\ error' = NoError
            /\ del' = [DelIdle EXCEPT !.pc = "listJobs", !.path = p]
       ELSE UNCHANGED <<error, del>>
    /\ UNCHANGED <<rawData, validated, uploadProgress, uploadingPdfs,
                   deletingPdfs>>
    /\ UNCHANGED <<jobs, invoiceTbl, submitted, storage, nextId, files,
                   processingJobs, invoices, loading, refreshing,
                   ing, sub>>

\* the user clicks Delete on a listed file and answers the confirmation
HandleDeleteFile(p, confirm) ==
    /\ Free
    /\ p \in files
    /\ p \notin deletingFiles
    /\ IF confirm
       THEN /\ deletingFiles' = deletingFiles \cup {p}
            /\ error' = NoError
            /\ del' = [DelIdle EXCEPT !.pc = "listJobs", !.path = p]
       ELSE UNCHANGED <<deletingFiles, error, del>>
    /\ UNCHANGED <<rawData, validated, uploadProgress, uploadingPdfs,
                   deletingPdfs>>
    /\ UNCHANGED <<jobs, invoiceTbl, submitted, storage, nextId, files,
                   processingJobs, invoices, loading, refreshing,
                   ing, sub>>

\* the jobs whose s3Key is the path
JobsOfPath(p) == SetToSeq({j \in DOMAIN jobs : jobs[j].s3Key = p})

\* the invoices whose uploadJobId is the job
InvoicesOfJob(j) == {x \in DOMAIN invoiceTbl : invoiceTbl[x].uploadJobId = j}

\* InvoiceUploadJob.list settles
DelListJobs(ok) ==
    /\ del.pc = "listJobs"
    /\ IF ok
       THEN /\ del' = IF JobsOfPath(del.path) = <<>>
                      THEN [del EXCEPT !.pc = "remove", !.removed = TRUE]
                      ELSE [del EXCEPT !.pc = "listInvoices",
                                       !.associatedJobs = JobsOfPath(del.path),
                                       !.job = JobsOfPath(del.path)[1]]
            /\ UNCHANGED <<error, deletingFiles>>
       ELSE DelThrow(del, Err("Failed to find associated processing job"))
    /\ UNCHANGED <<rawData, validated, uploadProgress, uploadingPdfs,
                   deletingPdfs>>
    /\ UNCHANGED <<jobs, invoiceTbl, submitted, storage, nextId, files,
                   processingJobs, invoices, loading, refreshing,
                   ing, sub>>

\* variant: the invoices of the job are not looked up
DelListInvoices_SkipInvoices(ok) ==
    /\ del.pc = "listInvoices"
    /\ IF ok
       THEN /\ del' = [del EXCEPT !.pc = "deleteJob",
                                  !.jobDeletes = @ \cup {del.job}]
            /\ UNCHANGED <<error, deletingFiles>>
       ELSE DelThrow(del, Err("Failed to find associated invoices"))
    /\ UNCHANGED <<rawData, validated, uploadProgress, uploadingPdfs,
                   deletingPdfs>>
    /\ UNCHANGED <<jobs, invoiceTbl, submitted, storage, nextId, files,
                   processingJobs, invoices, loading, refreshing,
                   ing, sub>>

\* Invoice.list of the current job settles
DelListInvoices(ok) ==
    /\ del.pc = "listInvoices"
    /\ IF ok
       THEN /\ del' = IF InvoicesOfJob(del.job) = {}
                      THEN [del EXCEPT !.pc = "deleteJob",
                                       !.jobDeletes = @ \cup {del.job}]
                      ELSE [del EXCEPT !.pc = "deleting",
                                       !.pending = InvoicesOfJob(del.job),
                                       !.total = Cardinality(InvoicesOfJob(del.job)),
                                       !.invoiceFailed = 0]
            /\ UNCHANGED <<error, deletingFiles>>
       ELSE DelThrow(del, Err("Failed to find associated invoices"))
    /\ UNCHANGED <<rawData, validated, uploadProgress, uploadingPdfs,
                   deletingPdfs>>
    /\ UNCHANGED <<jobs, invoiceTbl, submitted, storage, nextId, files,
                   processingJobs, invoices, loading, refreshing,
                   ing, sub>>

\* variant: the failed count is not looked at
AfterInvoiceDeletes_NoAbort(st) ==
    /\ del' = [st EXCEPT !.pc = "deleteJob", !.jobDeletes = @ \cup {st.job}]
    /\ UNCHANGED <<error, deletingFiles>>

\* the step after Promise.allSettled of the invoice deletions
AfterInvoiceDeletes(st) ==
    IF st.invoiceFailed > 0
    THEN DelThrow(st, [msg |-> "Failed to delete invoices",
                       failed |-> st.invoiceFailed, total |-> st.total])
    ELSE /\ del' = [st EXCEPT !.pc = "deleteJob",
                              !.jobDeletes = @ \cup {st.job}]
         /\ UNCHANGED <<error, deletingFiles>>

\* one Invoice.delete of the current job settles
DelSettleInvoice(inv, ok) ==
    /\ del.pc = "deleting"
    /\ inv \in del.pending
    /\ ok => inv \in DOMAIN invoiceTbl
    /\ invoiceTbl' = IF ok THEN Remove(invoiceTbl, inv) ELSE invoiceTbl
    /\ LET st == IF ok
                 THEN [del EXCEPT !.pending = @ \ {inv}]
                 ELSE [del EXCEPT !.pending = @ \ {inv},
                                  !.invoiceFailed = @ + 1,
                                  !.failedJobs = @ \cup {del.job}]
       IN IF st.pending = {}
          THEN AfterInvoiceDeletes(st)
          ELSE /\ del' = st
               /\ UNCHANGED <<error, deletingFiles>>
    /\ UNCHANGED <<rawData, validated, uploadProgress, uploadingPdfs,
                   deletingPdfs>>
    /\ UNCHANGED <<jobs, submitted, storage, nextId, files, processingJobs,
                   invoices, loading, refreshing, ing, sub>>

\* the position of the current job in associatedJobs
JobIndex(st) == CHOOSE k \in 1..Len(st.associatedJobs) : st.associatedJobs[k] = st.job

\* InvoiceUploadJob.delete of the current job settles
DelDeleteJob(ok) ==
    /\ del.pc = "deleteJob"
    /\ ok => del.job \in DOMAIN jobs
    /\ IF ok
       THEN /\ jobs' = Remove(jobs, del.job)
            /\ del' = IF JobIndex(del) < Len(del.associatedJobs)
                      THEN [del EXCEPT !.pc = "listInvoices",
                                       !.job = del.associatedJobs[JobIndex(del) + 1]]
                      ELSE [del EXCEPT !.pc = "remove", !.removed = TRUE]
            /\ UNCHANGED <<error, deletingFiles>>
       ELSE /\ jobs' = jobs
            /\ DelThrow(del, Err("Failed to delete processing job"))
    /\ UNCHANGED <<rawData, validated, uploadProgress, uploadingPdfs,
                   deletingPdfs>>
    /\ UNCHANGED <<invoiceTbl, submitted, storage, nextId, files,
                   processingJobs, invoices, loading, refreshing,
                   ing, sub>>

\* variant: the file list is reloaded also when the remove failed
DelRemove_Ignore(ok) ==
    /\ del.pc = "remove"
    /\ storage' = IF ok THEN storage \ {del.path} ELSE storage
    /\ del' = [del EXCEPT !.pc = "reload"]
    /\ UNCHANGED <<error, deletingFiles>>
    /\ UNCHANGED <<rawData, validated, uploadProgress, uploadingPdfs,
                   deletingPdfs>>
    /\ UNCHANGED <<jobs, invoiceTbl, submitted, nextId, files, processingJobs,
                   invoices, loading, refreshing, ing, sub>>

\* the storage remove settles
DelRemove(ok) ==
    /\ del.pc = "remove"
    /\ IF ok
       THEN /\ storage' = storage \ {del.path}
            /\ del' = [del EXCEPT !.pc = "reload"]
            /\ UNCHANGED <<error, deletingFiles>>
       ELSE /\ storage' = storage
            /\ DelThrow(del, Err("exception"))
    /\ UNCHANGED <<rawData, validated, uploadProgress, uploadingPdfs,
                   deletingPdfs>>
    /\ UNCHANGED <<jobs, invoiceTbl, submitted, nextId, files, processingJobs,
                   invoices, loading, refreshing, ing, sub>>

\* loadFiles settles (it catches its own failure); the handler ends
DelReload(ok) ==
    /\ del.pc = "reload"
    /\ files' = IF ok THEN storage ELSE files
    /\ error' = IF ok \/ Len(del.associatedJobs) > 0
                THEN NoError ELSE Err("Failed to load files")
    /\ deletingFiles' = deletingFiles \ {del.path}
    /\ del' = DelIdle
    /\ UNCHANGED <<rawData, validated, uploadProgress, uploadingPdfs,
                   deletingPdfs>>
    /\ UNCHANGED <<jobs, invoiceTbl, submitted, storage, nextId,
                   processingJobs, invoices, loading, refreshing,
                   ing, sub>>

DeleteFile ==
    \/ \E p \in files, c \in BOOLEAN : HandleDeleteFile(p, c)
    \/ \E ok \in BOOLEAN : DelListJobs(ok)
    \/ \E ok \in BOOLEAN : DelListInvoices(ok)
    \/ \E inv \in del.pending, ok \in BOOLEAN : DelSettleInvoice(inv, ok)
    \/ \E ok \in BOOLEAN : DelDeleteJob(ok)
    \/ \E ok \in BOOLEAN : DelRemove(ok)
    \/ \E ok \in BOOLEAN : DelReload(ok)

\* ------------------------------------------------ processing-history clearing
\* the whole handler: after the confirmation every job of the list has its
\* delete issued; rejected are the deletes that fail
HandleClearProcessingHistory(confirm, rejected) ==
    /\ Free
    /\ processingJobs # {}
    /\ rejected \subseteq processingJobs
    /\ confirm => processingJobs \ DOMAIN jobs \subseteq rejected
    /\ ~confirm => rejected = {}
    /\ IF confirm
       THEN /\ jobs' = [j \in DOMAIN jobs \ (processingJobs \ rejected) |-> jobs[j]]
            /\ error' = IF rejected # {}
                        THEN [msg |-> "jobs could not be deleted",
                              failed |-> Cardinality(rejected),
                              total |-> Cardinality(processingJobs)]
                        ELSE NoError
       ELSE UNCHANGED <<jobs, error>>
    /\ UNCHANGED <<rawData, validated, uploadProgress, uploadingPdfs,
                   deletingPdfs>>
    /\ UNCHANGED <<invoiceTbl, submitted, storage, nextId, files,
                   processingJobs, deletingFiles, invoices, loading,
                   refreshing, ing, del, sub>>

ClearHistory ==
    \E c \in BOOLEAN, rejected \in SUBSET processingJobs :
        HandleClearProcessingHistory(c, rejected)

\* ------------------------------------------------------------ PDF attachment
\* content types (file.type) as character sequences
TypePdf == <<"a", "p", "p", "l", "i", "c", "a", "t", "i", "o", "n", "/", "p", "d", "f">>
TypeGzPdf == <<"a", "p", "p", "l", "i", "c", "a", "t", "i", "o", "n", "/", "x", "-", "g", "z", "p", "d", "f">>
TypePng == <<"i", "m", "a", "g", "e", "/", "p", "n", "g">>
TypeNone == <<>>
ContentTypes == {TypePdf, TypeGzPdf, TypePng, TypeNone}

\* String.prototype.includes
Includes(str, part) ==
    \E k \in 0..(Len(str) - Len(part)) : SubSeq(str, k + 1, k + Len(part)) = part

\* variant: every file is taken for a PDF
IsPdfType_Any(type) == TRUE

\* file.type.includes('pdf')
IsPdfType(type) == Includes(type, <<"p", "d", "f">>)

\* variant: the blob is removed again when the Invoice update fails
handlePdfUpload_CleanUp(inv, type, uploaded, updated) ==
    /\ Free
    /\ inv \in DOMAIN invoices
    /\ invoices[inv].isValid
    /\ invoices[inv].pdfS3Key = NULL
    /\ nextId.pdf <= MaxPdfs
    /\ uploaded => IsPdfType(type)
    /\ updated => uploaded /\ inv \in DOMAIN invoiceTbl
    /\ nextId' = IF uploaded THEN [nextId EXCEPT !.pdf = @ + 1] ELSE nextId
    /\ storage' = IF updated THEN storage \cup {PdfPath(nextId.pdf)}
                  ELSE storage
    /\ invoiceTbl' = IF updated
                     THEN [invoiceTbl EXCEPT ![inv].pdfS3Key = nextId.pdf]
                     ELSE invoiceTbl
    /\ refreshing' = (refreshing \/ updated)
    /\ loading' = (loading \/ updated)
    /\ uploadingPdfs' = IF IsPdfType(type) THEN (uploadingPdfs \cup {inv}) \ {inv}
                        ELSE uploadingPdfs
    /\ UNCHANGED <<rawData, validated, uploadProgress, deletingPdfs>>
    /\ UNCHANGED <<jobs, submitted, files, processingJobs, error,
                   deletingFiles, invoices, ing, del, sub>>

\* the whole handlePdfUpload: content-type check, storage upload, Invoice
\* update, and the refreshInvoices() it starts without awaiting
handlePdfUpload(inv, type, uploaded, updated) ==
    /\ Free
    /\ inv \in DOMAIN invoices
    /\ invoices[inv].isValid
    /\ invoices[inv].pdfS3Key = NULL
    /\ nextId.pdf <= MaxPdfs
    /\ uploaded => IsPdfType(type)
    /\ updated => uploaded /\ inv \in DOMAIN invoiceTbl
    /\ nextId' = IF uploaded THEN [nextId EXCEPT !.pdf = @ + 1] ELSE nextId
    /\ storage' = IF uploaded THEN storage \cup {PdfPath(nextId.pdf)}
                  ELSE storage
    /\ invoiceTbl' = IF updated
                     THEN [invoiceTbl EXCEPT ![inv].pdfS3Key = nextId.pdf]
                     ELSE invoiceTbl
    /\ refreshing' = (refreshing \/ updated)
    /\ loading' = (loading \/ updated)
    /\ uploadingPdfs' = IF IsPdfType(type) THEN (uploadingPdfs \cup {inv}) \ {inv}
                        ELSE uploadingPdfs
    /\ UNCHANGED <<rawData, validated, uploadProgress, deletingPdfs>>
    /\ UNCHANGED <<jobs, submitted, files, processingJobs, error,
                   deletingFiles, invoices, ing, del, sub>>

\* variant: detaching the PDF also marks the Invoice invalid
handlePdfDelete_Invalidate(inv, confirm, updated) ==
    /\ Free
    /\ inv \in DOMAIN invoices
    /\ invoices[inv].isValid
    /\ invoices[inv].pdfS3Key # NULL
    /\ updated => confirm /\ inv \in DOMAIN invoiceTbl
    /\ invoiceTbl' = IF updated
                     THEN [invoiceTbl EXCEPT ![inv].pdfS3Key = NULL,
                                             ![inv].isValid = FALSE]
                     ELSE invoiceTbl
    /\ refreshing' = (refreshing \/ updated)
    /\ loading' = (loading \/ updated)
    /\ deletingPdfs' = IF confirm THEN (deletingPdfs \cup {inv}) \ {inv}
                       ELSE deletingPdfs
    /\ UNCHANGED <<rawData, validated, uploadProgress, uploadingPdfs>>
    /\ UNCHANGED <<jobs, submitted, storage, nextId, files, processingJobs,
                   error, deletingFiles, invoices, ing, del, sub>>

\* variant: detaching the PDF also deletes its object from storage
handlePdfDelete_RemoveObject(inv, confirm, updated) ==
    /\ Free
    /\ inv \in DOMAIN invoices
    /\ invoices[inv].isValid
    /\ invoices[inv].pdfS3Key # NULL
    /\ updated => confirm /\ inv \in DOMAIN invoiceTbl
    /\ invoiceTbl' = IF updated
                     THEN [invoiceTbl EXCEPT ![inv].pdfS3Key = NULL]
                     ELSE invoiceTbl
    /\ storage' = IF updated
                  THEN storage \ {PdfPath(invoices[inv].pdfS3Key)}
                  ELSE storage
    /\ refreshing' = (refreshing \/ updated)
    /\ loading' = (loading \/ updated)
    /\ deletingPdfs' = IF confirm THEN (deletingPdfs \cup {inv}) \ {inv}
                       ELSE deletingPdfs
    /\ UNCHANGED <<rawData, validated, uploadProgress, uploadingPdfs>>
    /\ UNCHANGED <<jobs, submitted, nextId, files, processingJobs,
                   error, deletingFiles, invoices, ing, del, sub>>

\* variant: the marker is cleared only when the update succeeded
handlePdfDelete_KeepMarker(inv, confirm, updated) ==
    /\ Free
    /\ inv \in DOMAIN invoices
    /\ invoices[inv].isValid
    /\ invoices[inv].pdfS3Key # NULL
    /\ updated => confirm /\ inv \in DOMAIN invoiceTbl
    /\ invoiceTbl' = IF updated
                     THEN [invoiceTbl EXCEPT ![inv].pdfS3Key = NULL]
                     ELSE invoiceTbl
    /\ refreshing' = (refreshing \/ updated)
    /\ loading' = (loading \/ updated)
    /\ deletingPdfs' = IF ~confirm THEN deletingPdfs
                       ELSE IF updated THEN (deletingPdfs \cup {inv}) \ {inv}
                       ELSE deletingPdfs \cup {inv}
    /\ UNCHANGED <<rawData, validated, uploadProgress, uploadingPdfs>>
    /\ UNCHANGED <<jobs, submitted, storage, nextId, files, processingJobs,
                   error, deletingFiles, invoices, ing, del, sub>>

\* the whole handlePdfDelete: confirmation, Invoice update clearing the PDF
\* fields, and the refreshInvoices() it starts without awaiting
handlePdfDelete(inv, confirm, updated) ==
    /\ Free
    /\ inv \in DOMAIN invoices
    /\ invoices[inv].isValid
    /\ invoices[inv].pdfS3Key # NULL
    /\ updated => confirm /\ inv \in DOMAIN invoiceTbl
    /\ invoiceTbl' = IF updated
                     THEN [invoiceTbl EXCEPT ![inv].pdfS3Key = NULL]
                     ELSE invoiceTbl
    /\ refreshing' = (refreshing \/ updated)
    /\ loading' = (loading \/ updated)
    /\ deletingPdfs' = IF confirm THEN (deletingPdfs \cup {inv}) \ {inv}
                       ELSE deletingPdfs
    /\ UNCHANGED <<rawData, validated, uploadProgress, uploadingPdfs>>
    /\ UNCHANGED <<jobs, submitted, storage, nextId, files, processingJobs,
                   error, deletingFiles, invoices, ing, del, sub>>

PdfAttachment ==
    \/ \E inv \in DOMAIN invoices, type \in ContentTypes,
          uploaded, updated \in BOOLEAN :
          handlePdfUpload(inv, type, uploaded, updated)
    \/ \E inv \in DOMAIN invoices, c, updated \in BOOLEAN :
          handlePdfDelete(inv, c, updated)

\* ---------------------------------------------------------------- submission
\* variant: an Invoice that already has a SubmittedInvoice is left out
validInvoicesOf_NotSubmitted(invs) ==
    SetToSeq({x \in DOMAIN invs :
                 /\ invs[x].isValid
                 /\ \A s \in submitted : s.originalInvoiceId # x})

\* invoices.filter(inv => inv.isValid), as the list of their ids
validInvoicesOf(invs) == SetToSeq({x \in DOMAIN invs : invs[x].isValid})

validInvoicesWithPdf(invs) ==
    {x \in DOMAIN invs : invs[x].isValid /\ invs[x].pdfS3Key # NULL}

\* variant: one attached PDF is enough for the button
submitButtonState_AnyPdf(invs, isLoading, isSubmitting) ==
    [visible |-> Len(validInvoicesOf(invs)) > 0,
     enabled |-> Cardinality(validInvoicesWithPdf(invs)) > 0
                 /\ ~isLoading /\ ~isSubmitting,
     missingPdfs |-> Len(validInvoicesOf(invs))
                     - Cardinality(validInvoicesWithPdf(invs))]

\* variant: the button does not look at the PDFs
submitButtonState_NoPdfCheck(invs, isLoading, isSubmitting) ==
    [visible |-> Len(validInvoicesOf(invs)) > 0,
     enabled |-> Len(validInvoicesOf(invs)) > 0 /\ ~isLoading /\ ~isSubmitting,
     missingPdfs |-> Len(validInvoicesOf(invs))
                     - Cardinality(validInvoicesWithPdf(invs))]

\* variant: the button stays enabled while a submission runs
submitButtonState_WhileSubmitting(invs, isLoading, isSubmitting) ==
    [visible |-> Len(validInvoicesOf(invs)) > 0,
     enabled |-> /\ Len(validInvoicesOf(invs)) > 0
                 /\ Cardinality(validInvoicesWithPdf(invs))
                        = Len(validInvoicesOf(invs))
                 /\ ~isLoading,
     missingPdfs |-> Len(validInvoicesOf(invs))
                     - Cardinality(validInvoicesWithPdf(invs))]

submitButtonState(invs, isLoading, isSubmitting) ==
    LET hasInvoices == Len(validInvoicesOf(invs)) > 0
        allValidInvoicesHavePdf ==
            /\ Len(validInvoicesOf(invs)) > 0
            /\ Cardinality(validInvoicesWithPdf(invs)) = Len(validInvoicesOf(invs))
    IN [visible |-> hasInvoices,
        enabled |-> hasInvoices /\ allValidInvoicesHavePdf
                    /\ ~isLoading /\ ~isSubmitting,
        missingPdfs |-> Len(validInvoicesOf(invs))
                        - Cardinality(validInvoicesWithPdf(invs))]

\* the snapshot of invoice x the handler works on
Snapshot(x) ==
    [id |-> x, uploadJobId |-> invoices[x].uploadJobId,
     isValid |-> invoices[x].isValid, pdfS3Key |-> invoices[x].pdfS3Key]

\* the user clicks the enabled Submit button and answers the confirmation
HandleSubmitInvoices(confirm) ==
    /\ Free
    /\ submitButtonState(invoices, loading, sub.isSubmitting).enabled
    /\ nextId.sub - 1 + Len(validInvoicesOf(invoices)) <= MaxSubmitted
    /\ sub' = IF confirm
              THEN [SubIdle EXCEPT
                      !.pc = "copy",
                      !.validInvoices =
                          [k \in 1..Len(validInvoicesOf(invoices)) |->
                              Snapshot(validInvoicesOf(invoices)[k])],
                      !.i = 1, !.isSubmitting = TRUE,
                      !.submitMessage = "starting"]
              ELSE sub
    /\ UNCHANGED <<rawData, validated, uploadProgress, uploadingPdfs,
                   deletingPdfs>>
    /\ UNCHANGED <<jobs, invoiceTbl, submitted, storage, nextId, files,
                   processingJobs, error, deletingFiles, invoices, loading,
                   refreshing, ing, del>>

\* variant: the copy does not carry the PDF path
submittedInvoiceData_NoPdf(id, invoice) ==
    [id |-> id, originalInvoiceId |-> invoice.id,
     originalUploadJobId |-> invoice.uploadJobId,
     pdfS3Key |-> NULL, source |-> invoice]

\* variant: the copy does not record the Invoice it was made from
submittedInvoiceData_NoOrigin(id, invoice) ==
    [id |-> id, originalInvoiceId |-> NULL,
     originalUploadJobId |-> invoice.uploadJobId,
     pdfS3Key |-> invoice.pdfS3Key, source |-> invoice]

\* the SubmittedInvoice created from an invoice snapshot; source is the
\* snapshot it was copied from
submittedInvoiceData(id, invoice) ==
    [id |-> id, originalInvoiceId |-> invoice.id,
     originalUploadJobId |-> invoice.uploadJobId,
     pdfS3Key |-> invoice.pdfS3Key, source |-> invoice]

\* variant: a failed create ends the copy phase
SubCopy_Abort(ok) ==
    /\ sub.pc = "copy"
    /\ LET invoice == sub.validInvoices[sub.i]
           st == IF ok
                 THEN [sub EXCEPT !.successCount = @ + 1,
                                  !.copied = @ \cup {invoice.id},
                                  !.i = @ + 1]
                 ELSE [sub EXCEPT !.failCount = @ + 1,
                                  !.errors = @ + 1,
                                  !.copyFailed = @ \cup {invoice.id},
                                  !.i = Len(sub.validInvoices) + 1]
       IN /\ submitted' = IF ok
                          THEN submitted \cup
                               {submittedInvoiceData(nextId.sub, invoice)}
                          ELSE submitted
          /\ nextId' = IF ok THEN [nextId EXCEPT !.sub = @ + 1] ELSE nextId
          /\ sub' = IF st.i <= Len(st.validInvoices) THEN st
                    ELSE IF st.successCount > 0
                         THEN [st EXCEPT !.pc = "delete", !.i = 1]
                         ELSE [st EXCEPT !.pc = "refresh"]
    /\ UNCHANGED <<rawData, validated, uploadProgress, uploadingPdfs,
                   deletingPdfs>>
    /\ UNCHANGED <<jobs, invoiceTbl, storage, files, processingJobs, error,
                   deletingFiles, invoices, loading, refreshing,
                   ing, del>>

\* step 1: SubmittedInvoice.create of validInvoices[i] settles
SubCopy(ok) ==
    /\ sub.pc = "copy"
    /\ LET invoice == sub.validInvoices[sub.i]
           st == IF ok
                 THEN [sub EXCEPT !.successCount = @ + 1,
                                  !.copied = @ \cup {invoice.id},
                                  !.i = @ + 1]
                 ELSE [sub EXCEPT !.failCount = @ + 1,
                                  !.errors = @ + 1,
                                  !.copyFailed = @ \cup {invoice.id},
                                  !.i = @ + 1]
       IN /\ submitted' = IF ok
                          THEN submitted \cup
                               {submittedInvoiceData(nextId.sub, invoice)}
                          ELSE submitted
          /\ nextId' = IF ok THEN [nextId EXCEPT !.sub = @ + 1] ELSE nextId
          /\ sub' = IF st.i <= Len(st.validInvoices) THEN st
                    ELSE IF st.successCount > 0
                         THEN [st EXCEPT !.pc = "delete", !.i = 1]
                         ELSE [st EXCEPT !.pc = "refresh"]
    /\ UNCHANGED <<rawData, validated, uploadProgress, uploadingPdfs,
                   deletingPdfs>>
    /\ UNCHANGED <<jobs, invoiceTbl, storage, files, processingJobs, error,
                   deletingFiles, invoices, loading, refreshing,
                   ing, del>>

\* step 2: Invoice.delete of validInvoices[i], i <= successCount, settles
SubDelete(ok) ==
    /\ sub.pc = "delete"
    /\ LET invoice == sub.validInvoices[sub.i]
           st == IF ok
                 THEN [sub EXCEPT !.deleteSuccessCount = @ + 1,
                                  !.deletes = @ \cup {invoice.id},
                                  !.i = @ + 1]
                 ELSE [sub EXCEPT !.errors = @ + 1,
                                  !.deletes = @ \cup {invoice.id},
                                  !.deleteFailed = @ \cup {invoice.id},
                                  !.i = @ + 1]
       IN /\ ok => invoice.id \in DOMAIN invoiceTbl
          /\ invoiceTbl' = IF ok THEN Remove(invoiceTbl, invoice.id)
                           ELSE invoiceTbl
          /\ sub' = IF st.i <= st.successCount THEN st
                    ELSE [st EXCEPT !.pc = "refresh"]
    /\ UNCHANGED <<rawData, validated, uploadProgress, uploadingPdfs,
                   deletingPdfs>>
    /\ UNCHANGED <<jobs, submitted, storage, nextId, files, processingJobs,
                   error, deletingFiles, invoices, loading, refreshing,
                   ing, del>>

\* steps 3-5: onRefreshInvoices settles, window.clearUploadedFiles is called
\* when a clearing function is installed on the window, the result is
\* reported and isSubmitting is reset
SubRefresh(ok, installed) ==
    /\ sub.pc = "refresh"
    /\ invoices' = IF ok THEN invoiceTbl ELSE invoices
    /\ loading' = FALSE
    /\ files' = IF installed THEN {} ELSE files
    /\ sub' = [SubIdle EXCEPT
                 !.submitMessage = IF sub.failCount = 0 THEN "success"
                                   ELSE "partial",
                 !.submitError = IF sub.failCount # 0 /\ sub.errors > 0
                                 THEN "sample" ELSE "none"]
    /\ UNCHANGED <<rawData, validated, uploadProgress, uploadingPdfs,
                   deletingPdfs>>
    /\ UNCHANGED <<jobs, invoiceTbl, submitted, storage, nextId,
                   processingJobs, error, deletingFiles, refreshing,
                   ing, del>>

Submit ==
    \/ \E c \in BOOLEAN : HandleSubmitInvoices(c)
    \/ \E ok \in BOOLEAN : SubCopy(ok)
    \/ \E ok \in BOOLEAN : SubDelete(ok)
    \/ \E ok, installed \in BOOLEAN : SubRefresh(ok, installed)

\* -------------------------------------------------------------- the program
\* the whole application
Next ==
    \/ ObserveJobs
    \/ ObserveInvoices
    \/ \E ok \in BOOLEAN : RefreshInvoices(ok)
    \/ \E ok \in BOOLEAN : LoadFiles(ok)
    \/ Ingest
    \/ DeleteFile
    \/ ClearHistory
    \/ PdfAttachment
    \/ Submit

Spec == Init /\ [][Next]_vars

\* the UploadStore component alone: file selection and ingestion
NextIngest ==
    \/ ObserveJobs
    \/ \E ok \in BOOLEAN : LoadFiles(ok)
    \/ Ingest

SpecIngest == Init /\ [][NextIngest]_vars

\* a step of a running handleFileSelect / processInvoiceFile: an awaited
\* remote call settles and its continuation runs
IngestStep ==
    \/ \E progress \in Percents : OnProgress(progress)
    \/ \E ok \in BOOLEAN : UploadData(ok)
    \/ \E ok \in BOOLEAN : CreateJob(ok)
    \/ \E ok \in BOOLEAN, rows \in RowLists : DownloadAndParseFile(ok, rows)
    \/ \E r \in 1..MaxRows, ok \in BOOLEAN : SettleCreate(r, ok)
    \/ \E ok \in BOOLEAN : FinalUpdate(ok)
    \/ \E ok \in BOOLEAN : MarkFailed(ok)
    \/ \E ok \in BOOLEAN : ReloadFiles(ok)

\* ingestion under the event loop's scheduling: every awaited call settles,
\* with a result or an error, and the continuation of a settled call runs;
\* the user is not obliged to select a file
SpecIngestLive == SpecIngest /\ WF_vars(IngestStep)

\* the UploadStore component: ingestion, file deletion, history clearing
NextDelete ==
    \/ ObserveJobs
    \/ \E ok \in BOOLEAN : LoadFiles(ok)
    \/ Ingest
    \/ DeleteFile
    \/ ClearHistory

SpecDelete == Init /\ [][NextDelete]_vars

\* ingestion followed by PDF attachment and submission in the dashboard
NextSubmit ==
    \/ ObserveInvoices
    \/ \E ok \in BOOLEAN : RefreshInvoices(ok)
    \/ Ingest
    \/ PdfAttachment
    \/ Submit

SpecSubmit == Init /\ [][NextSubmit]_vars

\* the whole workspace when every remote call succeeds and every row is
\* valid: the user uploads files, attaches PDFs, and confirms or declines
\* each destructive operation
NextConfirm ==
    \/ ObserveJobs
    \/ ObserveInvoices
    \/ \E n \in 1..MaxFiles : HandleFileSelect(n)
    \/ UploadData(TRUE)
    \/ CreateJob(TRUE)
    \/ \E n \in 0..MaxRows :
          DownloadAndParseFile(TRUE, [r \in 1..n |-> ValidRow])
    \/ \E r \in ing.inflight : SettleCreate(r, TRUE)
    \/ FinalUpdate(TRUE)
    \/ ReloadFiles(TRUE)
    \/ \E p \in files, c \in BOOLEAN : HandleDeleteFile(p, c)
    \/ DelListJobs(TRUE)
    \/ DelListInvoices(TRUE)
    \/ \E inv \in del.pending : DelSettleInvoice(inv, TRUE)
    \/ DelDeleteJob(TRUE)
    \/ DelRemove(TRUE)
    \/ DelReload(TRUE)
    \/ \E c \in BOOLEAN :
          HandleClearProcessingHistory(
              c, IF c THEN processingJobs \ DOMAIN jobs ELSE {})
    \/ \E inv \in DOMAIN invoices :
          handlePdfUpload(inv, TypePdf, TRUE, TRUE)
    \/ \E c \in BOOLEAN : HandleSubmitInvoices(c)
    \/ SubCopy(TRUE)
    \/ SubDelete(TRUE)
    \/ \E installed \in BOOLEAN : SubRefresh(TRUE, installed)

SpecConfirm == Init /\ [][NextConfirm]_vars

\* the UploadStore component when several files are selected at once
NextSelect ==
    \/ ObserveJobs
    \/ \E n \in 1..MaxSelected : SelectFiles(n, MaxSelected)
    \/ \E progress \in Percents : OnProgress(progress)
    \/ \E ok \in BOOLEAN : UploadData(ok)
    \/ \E ok \in BOOLEAN : CreateJob(ok)
    \/ \E ok \in BOOLEAN, rows \in RowLists : DownloadAndParseFile(ok, rows)
    \/ \E r \in 1..MaxRows, ok \in BOOLEAN : SettleCreate(r, ok)
    \/ \E ok \in BOOLEAN : FinalUpdate(ok)
    \/ \E ok \in BOOLEAN : MarkFailed(ok)
    \/ \E ok \in BOOLEAN : ReloadFiles(ok)

SpecSelect == Init /\ [][NextSelect]_vars

\* the workspace when ingestion goes through (every row valid, every call
\* of the ingestion succeeds) and every remote call of file deletion, PDF
\* attachment and submission may fail
NextMarkers ==
    \/ ObserveInvoices
    \/ \E ok \in BOOLEAN : RefreshInvoices(ok)
    \/ HandleFileSelect(1)
    \/ UploadData(TRUE)
    \/ CreateJob(TRUE)
    \/ \E n \in 1..MaxRows :
          DownloadAndParseFile(TRUE, [r \in 1..n |-> ValidRow])
    \/ \E r \in ing.inflight : SettleCreate(r, TRUE)
    \/ FinalUpdate(TRUE)
    \/ ReloadFiles(TRUE)
    \/ DeleteFile
    \/ PdfAttachment
    \/ Submit

SpecMarkers == Init /\ [][NextMarkers]_vars

\* a validated row as processInvoiceFile uses it: the flag, the error list
\* and the business fields that go into the Invoice
ParsedOf(v) ==
    [isValid |-> v.isValid, validationErrors |-> v.validationErrors,
     business |-> <<v.invoiceId, v.sellerId, v.debtorId, v.currency,
                    v.amount, v.product, v.issueDate, v.dueDate>>]

\* the ingestion of a file of one row, the row drawn from the raw rows:
\* downloadAndParseFile validates it and processInvoiceFile creates the
\* Invoice (the create may fail, the other remote calls succeed)
InitValidate ==
    /\ jobs = EmptyTbl
    /\ invoiceTbl = EmptyTbl
    /\ submitted = {}
    /\ storage = {}
    /\ nextId = [job |-> 1, inv |-> 1, csv |-> 1, pdf |-> 1, sub |-> 1]
    /\ files = {}
    /\ processingJobs = {}
    /\ error = NoError
    /\ deletingFiles = {}
    /\ invoices = EmptyTbl
    /\ loading = TRUE
    /\ refreshing = FALSE
    /\ ing = IngIdle
    /\ del = DelIdle
    /\ sub = SubIdle
    /\ rawData \in {<<row>> : row \in RawRows}
    /\ validated = <<>>
    /\ uploadProgress = <<>>
    /\ uploadingPdfs = {}
    /\ deletingPdfs = {}

NextValidate ==
    \/ \E lenient \in BOOLEAN : ValidateRows(lenient)
    \/ HandleFileSelect(1)
    \/ UploadData(TRUE)
    \/ CreateJob(TRUE)
    \/ /\ validated # <<>>
       /\ DownloadAndParseFile(
              TRUE, [k \in 1..Len(validated) |-> ParsedOf(validated[k])])
    \/ \E r \in ing.inflight, ok \in BOOLEAN : SettleCreate(r, ok)
    \/ FinalUpdate(TRUE)
    \/ ReloadFiles(TRUE)

SpecValidate == InitValidate /\ [][NextValidate]_vars

\* ------------------------------------------------------------------ claims
Terminal == {"COMPLETED", "FAILED"}

\* C1: in handleSubmitInvoices the delete of an original Invoice is issued
\* only if the SubmittedInvoice copy of that same Invoice succeeded.
C1_DeleteOnlyCopied == sub.deletes \subseteq sub.copied

\* C2: every Invoice record's uploadJobId refers to an InvoiceUploadJob
\* record that exists.
C2_NoInvoiceOutlivesJob ==
    \A x \in DOMAIN invoiceTbl : invoiceTbl[x].uploadJobId \in DOMAIN jobs

\* a step of handleDeleteFile in which an Invoice.delete settles
DelSettles == del.pc = "deleting" /\ del' # del
\* the invoice deletions of the current job that failed, this step included
FailedAfter == del.invoiceFailed + (IF invoiceTbl' = invoiceTbl THEN 1 ELSE 0)

C3_Inv ==
    /\ del.failedJobs \cap del.jobDeletes = {}
    /\ del.failedJobs # {} => del.pc = "deleting" /\ ~del.removed

C3_Step ==
    (DelSettles /\ FailedAfter > 0) =>
        /\ jobs' = jobs
        /\ storage' = storage
        /\ del'.pc \in {"deleting", "idle"}
        /\ del'.pc = "deleting" => del.job \in del'.failedJobs
        /\ del'.pc = "idle" =>
              error' = [msg |-> "Failed to delete invoices",
                        failed |-> FailedAfter, total |-> del.total]

\* C3: in handleDeleteFile, once the deletion of an Invoice of a job has
\* failed, neither the delete of that job nor the storage remove is issued,
\* and the handler ends with the error "failed to delete N out of M".
C3_AbortOnFailedInvoiceDelete == []C3_Inv /\ [][C3_Step]_vars

C3_Witness ==
    /\ del.pc = "idle"
    /\ error.msg = "Failed to delete invoices"
    /\ error.failed >= 1
    /\ \E j \in DOMAIN jobs : jobs[j].s3Key \in storage /\ InvoicesOfJob(j) # {}

C4_Step ==
    /\ \A j \in DOMAIN jobs' \ DOMAIN jobs :
          /\ jobs'[j].status = "PROCESSING"
          /\ jobs'[j].totalInvoices = 0
          /\ jobs'[j].successfulInvoices = 0
          /\ jobs'[j].failedInvoices = 0
    /\ \A j \in DOMAIN jobs \cap DOMAIN jobs' :
          /\ jobs[j].status \in Terminal => jobs'[j].status = jobs[j].status
          /\ jobs[j].status = "PROCESSING" =>
                jobs'[j].status \in {"PROCESSING"} \cup Terminal

\* C4: a job is created PROCESSING with zeroed counts, a PROCESSING job stays
\* PROCESSING or becomes COMPLETED or FAILED, and a COMPLETED or FAILED job
\* keeps its status in every later step.
C4_StatusOnlyForward == [][C4_Step]_vars

C4_Witness ==
    /\ ing.pc = "idle"
    /\ \E j \in DOMAIN jobs : jobs[j].status \in Terminal

AllValid(rows) == \A r \in 1..Len(rows) : rows[r].isValid
AllInvalid(rows) == \A r \in 1..Len(rows) : ~rows[r].isValid

\* C5: when the batch loop has ended, the final update carries
\* totalInvoices = N and successfulInvoices + failedInvoices = N, every row
\* was counted exactly once, and N valid rows whose creates all succeeded
\* give N successful, 0 failed and COMPLETED.
C5_FinalCounts ==
    /\ \A r \in 1..MaxRows : ing.counted[r] <= 1
    /\ ing.pc = "final" =>
          /\ ing.updateData.totalInvoices = Len(ing.rows)
          /\ ing.updateData.successfulInvoices
                + ing.updateData.failedInvoices = Len(ing.rows)
          /\ \A r \in 1..Len(ing.rows) : ing.counted[r] = 1
          /\ (AllValid(ing.rows) /\ ing.rejected = {}) =>
                /\ ing.updateData.successfulInvoices = Len(ing.rows)
                /\ ing.updateData.failedInvoices = 0
                /\ ing.updateData.status = "COMPLETED"

C5_Witness ==
    /\ ing.pc = "final"
    /\ Len(ing.rows) >= 2
    /\ ing.rejected # {}
    /\ ing.updateData.successfulInvoices > 0

\* C6: the status of the final update is FAILED exactly when
\* successfulInvoices = 0 and totalInvoices > 0, and COMPLETED otherwise;
\* N > 0 rows that are all invalid give 0 successful, N failed and FAILED.
C6_TerminalStatus ==
    ing.pc = "final" =>
        /\ ing.updateData.status \in Terminal
        /\ ing.updateData.status = "FAILED" <=>
              (ing.updateData.successfulInvoices = 0
                 /\ ing.updateData.totalInvoices > 0)
        /\ (Len(ing.rows) > 0 /\ AllInvalid(ing.rows)) =>
              /\ ing.updateData.successfulInvoices = 0
              /\ ing.updateData.failedInvoices = Len(ing.rows)
              /\ ing.updateData.status = "FAILED"

C6_Witness ==
    /\ ing.pc = "final"
    /\ Len(ing.rows) > 0
    /\ AllInvalid(ing.rows)
    /\ ing.updateData.status = "FAILED"

\* C7: when the batch loop has ended, an Invoice create has been issued for
\* every parsed row, valid or invalid.
C7_EveryRowPersisted ==
    ing.pc = "final" => \A r \in 1..Len(ing.rows) : ing.issued[r] = 1

\* the step in which the catch block of processInvoiceFile ends
CatchEnds == ing.pc = "catch" /\ ing' # ing

\* C8 as stated: after a download or parse failure the run ends with the job
\* FAILED and carrying the error message, without any Invoice create, and
\* with the exception propagated.
C8_AlwaysMarkedFailed ==
    [][CatchEnds =>
          /\ ing'.thrown
          /\ ing.issued = NoRows
          /\ ing.job \in DOMAIN jobs'
          /\ jobs'[ing.job].status = "FAILED"
          /\ jobs'[ing.job].errorMessage = ing.errMsg]_vars

\* C8 amended: after a download or parse failure the run issues no Invoice
\* create and propagates the exception; its one update marks the job FAILED
\* with the error message when it succeeds and leaves the job record as it
\* was (PROCESSING) when it fails.
C8_BestEffortMarkedFailed ==
    /\ [](ing.pc = "catch" =>
             /\ ing.issued = NoRows
             /\ InvoicesOfJob(ing.job) = {}
             /\ ing.job \in DOMAIN jobs => jobs[ing.job].status = "PROCESSING")
    /\ [][CatchEnds =>
             /\ ing'.thrown
             /\ invoiceTbl' = invoiceTbl
             /\ \/ jobs' = jobs
                \/ /\ ing.job \in DOMAIN jobs
                   /\ jobs' = [jobs EXCEPT ![ing.job].status = "FAILED",
                                           ![ing.job].errorMessage = ing.errMsg]]_vars

C8_Witness ==
    /\ ing.pc = "reload"
    /\ ing.thrown
    /\ \E j \in DOMAIN jobs :
          /\ jobs[j].status = "FAILED"
          /\ jobs[j].errorMessage = "exception"
          /\ InvoicesOfJob(j) = {}

C9_Inv ==
    \A s \in submitted :
        /\ s.source.isValid
        /\ s.source.pdfS3Key # NULL
        /\ s.pdfS3Key = s.source.pdfS3Key
        /\ s.originalInvoiceId = s.source.id

C9_Step ==
    /\ submitted \subseteq submitted'
    /\ \A s \in submitted' \ submitted :
          /\ sub.pc = "copy"
          /\ s.source = sub.validInvoices[sub.i]
          /\ \A t \in submitted : t.id # s.id

Reports == sub.pc = "refresh" /\ sub'.pc = "idle"

\* C10: handleSubmitInvoices reports full success only when no copy and no
\* delete failed, and partial success with an error sample otherwise.
C10_PartialOnAnyFailure ==
    [][Reports =>
          IF sub.failCount = 0 /\ sub.deleteFailed = {}
          THEN sub'.submitMessage = "success"
          ELSE sub'.submitMessage = "partial"
                  /\ sub'.submitError = "sample"]_vars

\* C11: the status handleSubmitInvoices reports is full success when every
\* row was copied, partial success when some rows were copied and some
\* failed, and full failure when no row was copied; partial success is not
\* reported when every row failed or every row succeeded.
C11_ThreeWayStatus ==
    [][Reports =>
          /\ sub.copyFailed = {} => sub'.submitMessage = "success"
          /\ sub.copied = {} => sub'.submitMessage = "failed"
          /\ sub'.submitMessage = "partial" =>
                sub.copied # {} /\ sub.copyFailed # {}]_vars

\* the Invoice records of job j after the step
InvoicesOfJobAfter(j) ==
    {x \in DOMAIN invoiceTbl' : invoiceTbl'[x].uploadJobId = j}

\* the step in which handleDeleteFile gives up on the invoices of a job
DelAborts == DelSettles /\ del'.pc = "idle"

\* C12: when handleDeleteFile could not delete every Invoice of a job, it
\* ends with an error carrying the failed count, and the job still has all
\* the Invoice records it had, the job record and the storage are as before.
C12_UntouchedOnAbort ==
    [][DelAborts =>
          /\ error'.failed >= 1
          /\ Cardinality(InvoicesOfJobAfter(del.job)) = del.total
          /\ jobs' = jobs
          /\ storage' = storage]_vars

\* C13: every job whose status is COMPLETED or FAILED has
\* successfulInvoices + failedInvoices <= totalInvoices.
C13_TerminalCounts ==
    \A j \in DOMAIN jobs :
        jobs[j].status \in Terminal =>
            jobs[j].successfulInvoices + jobs[j].failedInvoices
                <= jobs[j].totalInvoices

C13_Witness ==
    \E j \in DOMAIN jobs :
        /\ jobs[j].status = "COMPLETED"
        /\ jobs[j].successfulInvoices > 0
        /\ jobs[j].failedInvoices > 0

\* the ids of the Invoice objects a submission works on
SubIds == {sub.validInvoices[k].id : k \in 1..Len(sub.validInvoices)}

\* every remote call of the submission has succeeded so far
SubAllOk == sub.copyFailed = {} /\ sub.deleteFailed = {}

C14_Inv ==
    (sub.pc = "refresh" /\ SubAllOk) =>
        /\ sub.copied = SubIds
        /\ sub.successCount = Len(sub.validInvoices)
        /\ sub.deletes = SubIds
        /\ sub.deleteSuccessCount = Len(sub.validInvoices)
        /\ SubIds \cap DOMAIN invoiceTbl = {}
        /\ \A x \in SubIds : \E s \in submitted : s.originalInvoiceId = x

C14_Step ==
    /\ (sub.pc = "copy" /\ sub' # sub) =>
          \/ submitted' = submitted /\ ~SubAllOk'
          \/ \E s \in submitted' \ submitted :
                /\ submitted' = submitted \cup {s}
                /\ s.originalInvoiceId = sub.validInvoices[sub.i].id
    /\ (sub.pc = "delete" /\ sub' # sub) =>
          \/ invoiceTbl' = invoiceTbl /\ ~SubAllOk'
          \/ invoiceTbl' = Remove(invoiceTbl, sub.validInvoices[sub.i].id)
    /\ sub.pc \notin {"copy", "delete"} => invoiceTbl' = invoiceTbl \/ sub' = sub
    /\ sub' # sub => storage' = storage

AssociatedJobs == {del.associatedJobs[k] : k \in 1..Len(del.associatedJobs)}

\* C15: when every remote call of handleDeleteFile has succeeded, every job
\* whose s3Key is the path is removed together with all its Invoice
\* records, and the storage object is removed.
C15_DeleteAllOk ==
    del.pc = "reload" =>
        /\ del.path \notin storage
        /\ JobsOfPath(del.path) = <<>>
        /\ \A j \in AssociatedJobs :
              j \notin DOMAIN jobs /\ InvoicesOfJob(j) = {}

C15_Witness ==
    /\ del.pc = "reload"
    /\ AssociatedJobs # {}
    /\ del.total >= 2

C16_Inv == \A s \in submitted : s.pdfS3Key = s.source.pdfS3Key

C16_Step ==
    sub' # sub =>
        /\ storage' = storage
        /\ jobs' = jobs
        /\ invoiceTbl' # invoiceTbl =>
              /\ sub.pc = "delete"
              /\ invoiceTbl' = Remove(invoiceTbl, sub.validInvoices[sub.i].id)

\* C16: a submission changes neither object storage nor the job table, it
\* removes an Invoice only in its delete phase, and every SubmittedInvoice
\* carries the PDF path of the Invoice object it was copied from.
C16_SubmissionFrame == []C16_Inv /\ [][C16_Step]_vars

C16_Witness ==
    /\ sub.pc = "refresh"
    /\ sub.deleteSuccessCount > 0
    /\ storage # {}
    /\ DOMAIN jobs # {}
    /\ \E s \in submitted : s.pdfS3Key # NULL

\* every valid Invoice of the view has a PDF, and there is one
ReadyToSubmit ==
    /\ \E x \in DOMAIN invoices : invoices[x].isValid
    /\ \A x \in DOMAIN invoices :
          invoices[x].isValid => invoices[x].pdfS3Key # NULL

\* C17: the submit button is enabled only when the view holds a valid
\* Invoice and every valid Invoice of the view has a PDF, and a submission
\* starts only in such a state.
C17_SubmitOnlyWhenReady ==
    /\ [](submitButtonState(invoices, loading, sub.isSubmitting).enabled
             => ReadyToSubmit)
    /\ [][(sub.pc = "idle" /\ sub'.pc # "idle") => ReadyToSubmit]_vars

C17_Witness ==
    /\ sub.pc = "copy"
    /\ Len(sub.validInvoices) >= 2

\* C19: a step changes no field of an existing Invoice record other than
\* its PDF attachment field.
C19_OnlyPdfFieldsUpdated ==
    [][\A x \in DOMAIN invoiceTbl \cap DOMAIN invoiceTbl' :
          [invoiceTbl'[x] EXCEPT !.pdfS3Key = invoiceTbl[x].pdfS3Key]
              = invoiceTbl[x]]_vars

C19_Witness ==
    \E x \in DOMAIN invoiceTbl :
        invoiceTbl[x].pdfS3Key # NULL /\ invoiceTbl[x].isValid

\* a step of handlePdfUpload on a file of one of the types
PdfUploadOf(types) ==
    \E inv \in DOMAIN invoices, type \in types, uploaded, updated \in BOOLEAN :
        handlePdfUpload(inv, type, uploaded, updated)

Declined ==
    \/ \E p \in files : HandleDeleteFile(p, FALSE)
    \/ HandleClearProcessingHistory(FALSE, {})
    \/ HandleSubmitInvoices(FALSE)

\* the records and objects the remote services hold
Remote == <<jobs, invoiceTbl, submitted, storage>>

C18_Step ==
    /\ Declined => UNCHANGED vars
    /\ (del.pc = "idle" /\ del'.pc # "idle") =>
          /\ \E p \in files : HandleDeleteFile(p, TRUE)
          /\ UNCHANGED Remote
    /\ (sub.pc = "idle" /\ sub'.pc # "idle") =>
          /\ HandleSubmitInvoices(TRUE)
          /\ UNCHANGED Remote
    /\ (del.pc = "idle" /\ DOMAIN jobs' # DOMAIN jobs
          /\ DOMAIN jobs' \subseteq DOMAIN jobs) =>
          \E rejected \in SUBSET processingJobs :
              HandleClearProcessingHistory(TRUE, rejected)

\* C18: a declined confirmation of file deletion, history clearing or
\* submission changes nothing, and each of the three operations starts, and
\* issues its remote calls, only from a confirmed one.
C18_ConfirmBeforeDestructive == [][C18_Step]_vars

C18_Witness ==
    /\ Free
    /\ \E p \in files : p \notin deletingFiles
    /\ processingJobs # {}
    /\ submitButtonState(invoices, loading, sub.isSubmitting).enabled
    /\ nextId.sub - 1 + Len(validInvoicesOf(invoices)) <= MaxSubmitted

\* the PDF objects held by object storage
PdfObjects(store) == {p \in store : p[1] = "pdf"}

\* a step of handlePdfDelete
PdfDeleteStep ==
    \E inv \in DOMAIN invoices, c, updated \in BOOLEAN :
        handlePdfDelete(inv, c, updated)

\* C21: handlePdfDelete changes only the Invoice's PDF field and leaves
\* object storage as it is, and no step of attaching or detaching removes a
\* PDF object from storage.
C21_PdfObjectsNeverShrink ==
    [][/\ PdfObjects(storage) \subseteq PdfObjects(storage')
       /\ PdfDeleteStep =>
             /\ storage' = storage
             /\ DOMAIN invoiceTbl' = DOMAIN invoiceTbl
             /\ \A x \in DOMAIN invoiceTbl :
                   invoiceTbl'[x] = invoiceTbl[x]
                   \/ invoiceTbl'[x] = [invoiceTbl[x] EXCEPT !.pdfS3Key = NULL]]_vars

\* a PDF object stays in storage although no Invoice refers to it any more
C21_Witness ==
    /\ nextId.pdf > MaxPdfs
    /\ PdfObjects(storage) = {PdfPath(k) : k \in 1..MaxPdfs}
    /\ \E x \in DOMAIN invoiceTbl :
          invoiceTbl[x].isValid /\ invoiceTbl[x].pdfS3Key = NULL
    /\ \E k \in 1..MaxPdfs :
          \A x \in DOMAIN invoiceTbl : invoiceTbl[x].pdfS3Key # k

\* the row under validation and what validateInvoiceData returned for it
Row == rawData[1]
Result == validated[1]
Validated == rawData # <<>> /\ validated # <<>>

Has(row, key) == key \in DOMAIN row

\* the textual form of a UUID: groups of 8, 4, 4, 4 and 12 hexadecimal
\* digits, separated by hyphens
IsUuidText(str) ==
    /\ Len(str) = 36
    /\ \A k \in 1..36 :
          IF k \in {9, 14, 19, 24} THEN str[k] = "-" ELSE str[k] \in HexDigit

\* a UUID of version 1 to 5 in the RFC 4122 variant
IsUuidV1to5(str) ==
    /\ IsUuidText(str)
    /\ str[15] \in {"1", "2", "3", "4", "5"}
    /\ str[20] \in {"8", "9", "a", "b", "A", "B"}

\* a positive amount written as a plain decimal number
IsPositiveDecimal(str) ==
    /\ str # <<>>
    /\ \A k \in 1..Len(str) : str[k] \in Digit \cup {"."}
    /\ Cardinality({k \in 1..Len(str) : str[k] = "."}) <= 1
    /\ \E k \in 1..Len(str) : str[k] \in Digit \ {"0"}

\* a day of the calendar written YYYY-MM-DD
IsCalendarDate(str) ==
    /\ Len(str) = 10
    /\ \A k \in 1..10 :
          IF k \in {5, 8} THEN str[k] = "-" ELSE str[k] \in Digit
    /\ DigitsValue(SubSeq(str, 6, 7)) \in 1..12
    /\ DigitsValue(SubSeq(str, 9, 10)) \in
          1..DaysInMonth(DigitsValue(SubSeq(str, 1, 4)),
                         DigitsValue(SubSeq(str, 6, 7)))

\* the position of a calendar date in time
DateOrder(str) ==
    DigitsValue(SubSeq(str, 1, 4)) * 10000
    + DigitsValue(SubSeq(str, 6, 7)) * 100 + DigitsValue(SubSeq(str, 9, 10))

\* both dates of the row are days of the calendar
CalendarDates(row) ==
    /\ Has(row, "issue_date") /\ IsCalendarDate(row["issue_date"])
    /\ Has(row, "due_date") /\ IsCalendarDate(row["due_date"])

\* what every reading of C22 asks of a row besides its identifiers and its
\* product
WellFormedRest(row) ==
    /\ Has(row, "currency") /\ row["currency"] \in validCurrencies
    /\ Has(row, "amount") /\ IsPositiveDecimal(row["amount"])
    /\ CalendarDates(row)
    /\ DateOrder(row["due_date"]) > DateOrder(row["issue_date"])

Accepted(v) == v.isValid /\ v.validationErrors = <<>>

\* C22 as stated: a row whose three identifiers have the textual form of a
\* UUID, whose currency is in the allow-set, whose amount is positive, whose
\* product is not the empty string and whose due date is after its issue
\* date is returned valid with an empty error list.
C22_WellFormedRowIsValid ==
    (/\ Validated
     /\ \A key \in {"invoice_id", "seller_id", "debtor_id"} :
           Has(Row, key) /\ IsUuidText(Row[key])
     /\ Has(Row, "product") /\ Row["product"] # <<>>
     /\ WellFormedRest(Row))
    => Accepted(Result)

\* C22 amended: the same for a row whose identifiers are UUIDs of version 1
\* to 5 in the RFC 4122 variant and whose product is not empty after
\* trimming.
C22_V1to5RowIsValid ==
    (/\ Validated
     /\ \A key \in {"invoice_id", "seller_id", "debtor_id"} :
           Has(Row, key) /\ IsUuidV1to5(Row[key])
     /\ Has(Row, "product") /\ Trim(Row["product"]) # <<>>
     /\ WellFormedRest(Row))
    => Accepted(Result)

\* a row with an upper-case version 1 identifier and a padded product was
\* validated and found valid
C22_Witness ==
    /\ Validated
    /\ Has(Row, "invoice_id")
    /\ Row["invoice_id"] = Sample.UuidV1Upper
    /\ Row["seller_id"] = Sample.UuidSeller
    /\ Row["debtor_id"] = Sample.UuidDebtor
    /\ Row["product"] = Sample.WidgetPadded
    /\ WellFormedRest(Row)
    /\ Accepted(Result)

\* the rules a row violates, each tested on its own; the cross-field rule
\* compares the two days in time and applies when both dates were accepted
Violations(row, lenient) ==
    {key \in {"invoice_id", "seller_id", "debtor_id"} : BadUuid(row, key)}
    \cup (IF BadCurrency(row) THEN {"currency"} ELSE {})
    \cup (IF BadAmount(row) THEN {"amount"} ELSE {})
    \cup (IF BadProduct(row) THEN {"product"} ELSE {})
    \cup {key \in {"issue_date", "due_date"} : BadDate(row, key, lenient)}
    \cup (IF /\ ~BadDate(row, "issue_date", lenient)
             /\ ~BadDate(row, "due_date", lenient)
             /\ NewDate(row["due_date"], lenient).day
                   <= NewDate(row["issue_date"], lenient).day
          THEN {"due_after_issue"} ELSE {})

Rules(errors) == {errors[k].rule : k \in DOMAIN errors}

DatesAccepted(v) ==
    /\ "issue_date" \notin Rules(v.validationErrors)
    /\ "due_date" \notin Rules(v.validationErrors)

\* C24: for a row whose two dates the validator accepts, the cross-field
\* error is in the list exactly when the row's due date is equal to or
\* earlier than its issue date, and the result carries the two dates as the
\* row gave them.
C24_CrossFieldRule ==
    (Validated /\ DatesAccepted(Result)) =>
        /\ "due_after_issue" \in Rules(Result.validationErrors)
              <=> DateOrder(Row["due_date"]) <= DateOrder(Row["issue_date"])
        /\ Result.issueDate = Row["issue_date"]
        /\ Result.dueDate = Row["due_date"]

\* C25: every result of validateInvoiceData, every validated row that
\* processInvoiceFile works on and every Invoice record it has created is
\* flagged valid exactly when its error list is empty.
C25_ValidIffNoErrors ==
    /\ \A k \in DOMAIN validated :
          validated[k].isValid <=> validated[k].validationErrors = <<>>
    /\ \A k \in DOMAIN ing.rows :
          ing.rows[k].isValid <=> ing.rows[k].validationErrors = <<>>
    /\ \A x \in DOMAIN invoiceTbl :
          invoiceTbl[x].isValid <=> invoiceTbl[x].validationErrors = <<>>

\* the Invoice of a validated row has been created
C25_Witness ==
    /\ Validated
    /\ \E x \in DOMAIN invoiceTbl :
          /\ invoiceTbl[x].isValid = Result.isValid
          /\ invoiceTbl[x].validationErrors = Result.validationErrors
          /\ invoiceTbl[x].business = ParsedOf(Result).business

\* the number of the batch a row belongs to
BatchNo(r) == (r - 1) \div batchSize

\* the row has been dealt with: counted once, and no create of it in flight
Settled(st, r) == r \notin st.inflight /\ st.counted[r] = 1

\* C26: while an Invoice create of a row has been issued, every row of every
\* earlier batch is settled, and when the final job update is issued every
\* row of the file is settled.
C26_BatchesInOrder ==
    /\ \A r \in DOMAIN ing.rows :
          ing.issued[r] > 0 =>
              \A s \in DOMAIN ing.rows : BatchNo(s) < BatchNo(r) => Settled(ing, s)
    /\ \A r \in ing.inflight : ing.issued[r] = 1 /\ ing.rows[r].isValid
    /\ ing.pc = "final" =>
          /\ ing.rows # <<>> => ing.i >= Len(ing.rows)
          /\ \A s \in DOMAIN ing.rows : Settled(ing, s)

\* a create of the second batch is in flight after a create of the first
\* batch has settled
C26_Witness ==
    /\ ing.pc = "settle"
    /\ \E r \in ing.inflight : BatchNo(r) = 1
    /\ \E s \in DOMAIN ing.rows :
          BatchNo(s) = 0 /\ ing.issued[s] = 1 /\ Settled(ing, s)

\* the rows of the file the validator found valid
ValidRowsOf(st) == {r \in DOMAIN st.rows : st.rows[r].isValid}

\* C27: when the batch loop has ended, an Invoice create has been issued
\* exactly once for every valid row of the file, whichever creates were
\* rejected, and a failure is counted once for each rejected row and each
\* invalid row and for no other row.
C27_RejectedCreateIsolated ==
    /\ ing.rejected \subseteq ValidRowsOf(ing)
    /\ ing.pc = "final" =>
          /\ \A r \in ValidRowsOf(ing) : ing.issued[r] = 1
          /\ \A r \in DOMAIN ing.rows : ing.counted[r] = 1
          /\ ing.failedCount
                = Cardinality(ing.rejected)
                  + Cardinality(DOMAIN ing.rows \ ValidRowsOf(ing))
          /\ ing.successfulCount
                = Cardinality(ValidRowsOf(ing) \ ing.rejected)
          /\ Cardinality({x \in DOMAIN invoiceTbl :
                             invoiceTbl[x].uploadJobId = ing.job})
                = ing.successfulCount

\* the first row's create was rejected; the other row of its batch and the
\* row of the next batch were created
C27_Witness ==
    /\ ing.pc = "final"
    /\ ing.rejected = {1}
    /\ ValidRowsOf(ing) = 1..MaxRows
    /\ ing.successfulCount = MaxRows - 1

C29_Step ==
    /\ FinalUpdate(FALSE) =>
          /\ ~ing'.thrown
          /\ ing'.pc \in {"upload", "reload"}
          /\ UNCHANGED <<jobs, invoiceTbl, nextId>>
    /\ \A x \in DOMAIN invoiceTbl :
          x \in DOMAIN invoiceTbl' /\ invoiceTbl'[x] = invoiceTbl[x]
    /\ ing.pc \in {"upload", "reload"} => ing'.pc \notin {"final", "catch"}

\* C29: a final job update that fails is not re-thrown: processInvoiceFile
\* returns to handleFileSelect, which goes on with the next file or the file
\* list, without a second update; no step of ingestion deletes or changes an
\* existing Invoice record and no row's create is issued twice.
C29_FailedFinalUpdateSwallowed ==
    /\ [](\A r \in DOMAIN ing.issued : ing.issued[r] <= 1)
    /\ [][C29_Step]_vars

\* the final update has failed: the job is still PROCESSING, its Invoices
\* exist, and handleFileSelect has gone on without an exception
C29_Witness ==
    /\ ing.pc = "reload"
    /\ ~ing.thrown
    /\ \E j \in DOMAIN jobs :
          /\ jobs[j].status = "PROCESSING"
          /\ \E x \in DOMAIN invoiceTbl : invoiceTbl[x].uploadJobId = j

\* C28: once the batch loop of a job's file has ended, the job record
\* eventually has a terminal status.
C28_EventuallyFinalized ==
    \A j \in 1..MaxFiles :
        (ing.pc = "final" /\ ing.job = j)
            ~> (j \in DOMAIN jobs /\ jobs[j].status \in Terminal)

\* the steps of handleDeleteFile that may follow a step
DelOrder ==
    [idle |-> {"listJobs"},
     listJobs |-> {"listInvoices", "remove", "idle"},
     listInvoices |-> {"deleting", "deleteJob", "idle"},
     deleting |-> {"deleting", "deleteJob", "idle"},
     deleteJob |-> {"listInvoices", "remove", "idle"},
     remove |-> {"reload", "idle"},
     reload |-> {"idle"}]

\* the jobs of the list before the current one
JobsBefore(st) ==
    {st.associatedJobs[k] : k \in 1..(JobIndex(st) - 1)}

\* what has succeeded when a step of handleDeleteFile is issued
C30_Inv ==
    /\ del.pc \in {"listInvoices", "deleting", "deleteJob"} =>
          /\ del.job \in DOMAIN jobs
          /\ jobs[del.job].s3Key = del.path
          /\ del.path \in storage
          /\ \A j \in JobsBefore(del) :
                j \notin DOMAIN jobs /\ InvoicesOfJob(j) = {}
    /\ del.pc = "deleting" => del.invoiceFailed = 0 \/ del.pending # {}
    /\ del.pc = "deleteJob" => InvoicesOfJob(del.job) = {}
    /\ del.pc \in {"remove", "reload"} =>
          \A k \in 1..Len(del.associatedJobs) :
              /\ del.associatedJobs[k] \notin DOMAIN jobs
              /\ InvoicesOfJob(del.associatedJobs[k]) = {}
    /\ del.pc = "reload" => del.path \notin storage

C30_Step ==
    /\ del'.pc # del.pc => del'.pc \in DelOrder[del.pc]
    /\ (del' # del /\ files' # files) => del.pc = "reload"
    /\ (del' # del /\ DOMAIN invoiceTbl' # DOMAIN invoiceTbl) =>
          del.pc = "deleting"
    /\ (del' # del /\ jobs' # jobs) => del.pc = "deleteJob"
    /\ (del' # del /\ storage' # storage) => del.pc = "remove"

\* C30: handleDeleteFile goes through its steps in the order list jobs,
\* list a job's Invoices, delete them, delete the job, remove the storage
\* object, reload the file list; a step is issued only when every earlier one
\* has succeeded, and the file list is reloaded only after the jobs of the
\* path, their Invoices and the storage object are gone.
C30_DeleteStepsInOrder == []C30_Inv /\ [][C30_Step]_vars

\* the reload is issued after a job with Invoices and the object were deleted
C30_Witness ==
    /\ del.pc = "reload"
    /\ Len(del.associatedJobs) > 0
    /\ del.total > 0
    /\ del.path \in files

\* the ids of the first n Invoices of the submission
IdsUpTo(n) == {sub.validInvoices[k].id : k \in 1..n}

\* the Invoices whose SubmittedInvoice.create has settled
CopySettled == sub.copied \cup sub.copyFailed

C31_Inv ==
    /\ sub.pc = "copy" =>
          /\ sub.i \in 1..Len(sub.validInvoices)
          /\ CopySettled = IdsUpTo(sub.i - 1)
    /\ sub.pc \in {"delete", "refresh"} => CopySettled = SubIds
    /\ sub.copied \cap sub.copyFailed = {}

C31_Step ==
    /\ (sub.pc = "idle" /\ sub'.pc = "copy") =>
          SubIds' = {x \in DOMAIN invoices : invoices[x].isValid}
    /\ (sub.pc = "copy" /\ sub' # sub) =>
          /\ CopySettled' = CopySettled \cup {sub.validInvoices[sub.i].id}
          /\ sub'.validInvoices = sub.validInvoices
          /\ Cardinality(submitted' \ submitted) <= 1
          /\ sub'.pc = "copy" => sub'.i = sub.i + 1

\* C31: the copy phase of handleSubmitInvoices takes the valid Invoices one
\* after another, one SubmittedInvoice create at a time; a create that fails
\* does not stop the phase, so when the phase is over a create has settled
\* for every valid Invoice of the displayed list.
C31_CopyEveryValidInvoice == []C31_Inv /\ [][C31_Step]_vars

\* the phase is over, the first create failed and the second succeeded
C31_Witness ==
    /\ sub.pc = "delete"
    /\ Len(sub.validInvoices) = 2
    /\ sub.validInvoices[1].id \in sub.copyFailed
    /\ sub.validInvoices[2].id \in sub.copied

\* the SubmittedInvoice records made from Invoice x
CopiesOf(table, x) == {s \in table : s.originalInvoiceId = x}

C32_Step ==
    /\ (sub.pc = "idle" /\ sub'.pc = "copy") =>
          \A x \in DOMAIN invoices :
              (invoices[x].isValid /\ CopiesOf(submitted, x) # {}) =>
                  x \in SubIds'
    /\ (sub.pc = "copy" /\ submitted' # submitted) =>
          LET x == sub.validInvoices[sub.i].id
          IN Cardinality(CopiesOf(submitted', x))
                 = Cardinality(CopiesOf(submitted, x)) + 1

\* C32: submission is not idempotent.  A run takes every valid Invoice of
\* the displayed list, also one that an earlier run copied without deleting
\* it, and every successful create adds one more SubmittedInvoice with that
\* Invoice's id as originalInvoiceId: after the second run there are two.
C32_ResubmissionDuplicates == [][C32_Step]_vars

\* two SubmittedInvoice records made from the same Invoice
C32_Witness ==
    \E s, t \in submitted :
        s # t /\ s.originalInvoiceId = t.originalInvoiceId

\* the last Invoice.create of the running batch settles
BatchSettles ==
    ing.pc = "settle" /\ Cardinality(ing.inflight) = 1 /\ ing' # ing

\* C33: during an ingestion run the job record is updated as batches
\* complete: when a batch has settled, a job update is issued, after every
\* batch and not only after the last one.
C33_JobUpdatedAfterEachBatch ==
    [][BatchSettles => (ing'.pc = "final" \/ jobs' # jobs)]_vars

C34_Inv ==
    /\ \A r \in DOMAIN ing.issued : ing.issued[r] <= 1
    /\ \A j, k \in 1..Len(sub.validInvoices) :
           j # k => sub.validInvoices[j].id # sub.validInvoices[k].id

C34_Step ==
    /\ (sub.pc = "copy" /\ sub' # sub) =>
          sub.validInvoices[sub.i].id \notin CopySettled
    /\ (sub.pc = "delete" /\ sub' # sub) =>
          /\ sub.validInvoices[sub.i].id \notin sub.deletes
          /\ sub'.deletes = sub.deletes \cup {sub.validInvoices[sub.i].id}
    /\ (ing.pc = "settle" /\ ing' # ing) =>
          \A r \in ing.rejected : ing'.issued[r] = ing.issued[r]

\* C34: no remote call is retried.  In one ingestion run the Invoice create
\* of a row is issued at most once, and in one submission the
\* SubmittedInvoice create and the delete of an Invoice are each issued at
\* most once, whether the call succeeds or fails.
C34_NoRetry == []C34_Inv /\ [][C34_Step]_vars

\* a submission is over in which a create and a delete have failed
C34_Witness ==
    /\ sub.pc = "refresh"
    /\ sub.copyFailed # {}
    /\ sub.deleteFailed # {}

\* a handleSubmitInvoices run is between setIsSubmitting(true) and its
\* finally block
SubmissionRunning == sub.pc # "idle"

C40_Inv ==
    /\ SubmissionRunning => sub.isSubmitting
    /\ sub.isSubmitting =>
          ~submitButtonState(invoices, loading, sub.isSubmitting).enabled

C40_Step ==
    /\ (~sub.isSubmitting /\ sub'.isSubmitting) =>
          /\ submitButtonState(invoices, loading, sub.isSubmitting).enabled
          /\ sub.pc = "idle" /\ sub'.pc = "copy"
    /\ (sub.isSubmitting /\ ~sub'.isSubmitting) =>
          sub.pc = "refresh" /\ sub'.pc = "idle"
    /\ SubmissionRunning => sub'.validInvoices = sub.validInvoices \/ sub'.pc = "idle"

\* C40: at most one submission is in flight.  From setIsSubmitting(true) to
\* the finally block isSubmitting is set and the Submit button, the only
\* caller of handleSubmitInvoices, is disabled, so a run starts only when
\* none is running and the list a run works on is not replaced under it.
C40_OneSubmissionInFlight == []C40_Inv /\ [][C40_Step]_vars

\* a run is in its copy or delete phase and only isSubmitting disables the
\* button
C40_Witness ==
    /\ sub.pc \in {"copy", "delete"}
    /\ submitButtonState(invoices, loading, FALSE).enabled

\* a handlePdfUpload run whose upload succeeded and whose Invoice update
\* failed
UpdateFailsAfterUpload ==
    /\ Free
    /\ nextId'.pdf # nextId.pdf
    /\ invoiceTbl' = invoiceTbl
    /\ UNCHANGED <<ing, del, sub>>

\* C37: when the Invoice update fails after the PDF was uploaded,
\* handlePdfUpload deletes nothing from storage and uploads and updates
\* nothing else: the one new blob stays, every other object and every
\* Invoice record is as before, and no refresh is started.
C37_OrphanedBlobKept ==
    [][UpdateFailsAfterUpload =>
          /\ nextId'.pdf = nextId.pdf + 1
          /\ PdfPath(nextId.pdf) \notin storage
          /\ storage' = storage \cup {PdfPath(nextId.pdf)}
          /\ refreshing' = refreshing
          /\ \A x \in DOMAIN invoiceTbl' :
                 invoiceTbl'[x].pdfS3Key # nextId.pdf]_vars

\* a blob is in storage and no Invoice record refers to a PDF
C37_Witness ==
    /\ PdfObjects(storage) # {}
    /\ DOMAIN invoiceTbl # {}
    /\ \A x \in DOMAIN invoiceTbl : invoiceTbl[x].pdfS3Key = NULL
    /\ \A x \in DOMAIN invoices : invoices[x].pdfS3Key = NULL
    /\ ~refreshing
    /\ nextId.pdf = 2

\* C35: every in-flight marker is cleared when its operation ends, whatever
\* the outcome: when no handleDeleteFile run is in progress no path is in
\* deletingFiles (a running one marks only its own path), after
\* handlePdfUpload and handlePdfDelete no invoice id is in uploadingPdfs or
\* deletingPdfs, and when no submission is running isSubmitting is false.
C35_MarkersCleared ==
    /\ deletingFiles = IF del.pc = "idle" THEN {} ELSE {del.path}
    /\ uploadingPdfs = {}
    /\ deletingPdfs = {}
    /\ sub.isSubmitting <=> sub.pc # "idle"

\* a file deletion was aborted by failed Invoice deletes, a PDF upload left
\* a blob without a record, and a submission with a failed create is over
C35_Witness ==
    /\ del.pc = "idle"
    /\ error.total > 0
    /\ sub.pc = "idle"
    /\ sub.submitMessage = "partial"

\* a step of a running handleFileSelect
SelectionRuns == ing.pc # "idle" /\ DOMAIN uploadProgress' = DOMAIN uploadProgress

\* C36: for each file the percentages reported during upload and ingestion,
\* progress and processingProgress, never decrease over the run of that
\* file, whether the run completes or fails.
C36_ProgressNeverDecreases ==
    [][SelectionRuns =>
          \A k \in DOMAIN uploadProgress :
              /\ uploadProgress'[k].progress >= uploadProgress[k].progress
              /\ uploadProgress'[k].processingProgress
                     >= uploadProgress[k].processingProgress]_vars

\* the raw amount of the row as parseFloat reads it
ParsedAmount == parseFloat(StringOf(Row, "amount"))

\* a finite number strictly greater than 0
FinitePositive(n) == ~n.nan /\ ~n.inf /\ n.m > 0

\* C38: validateInvoiceData accepts an amount only if the raw text parses as
\* a finite number strictly greater than 0; for every other raw amount
\* (non-numeric, zero, negative, non-finite) it adds an amount error and
\* leaves the invoice's amount at 0.
C38_AmountFinitePositive ==
    Validated =>
        LET rejected == "amount" \in Rules(Result.validationErrors)
        IN /\ rejected <=> ~FinitePositive(ParsedAmount)
           /\ rejected => Result.amount = Zero
           /\ ~rejected => Result.amount = ParsedAmount

\* the run of the current file ends and handleFileSelect goes on
FileEnds == ing.pc \notin {"idle", "reload"} /\ ing'.queue # ing.queue

C39_Inv ==
    /\ ing.pc \notin {"idle", "reload"} =>
          ing.queue \in 1..Len(uploadProgress)
    /\ ing.pc = "upload" =>
          /\ ing.job = NULL /\ ing.inflight = {} /\ ing.rows = <<>>
          /\ uploadProgress[Index].isUploading

C39_Step ==
    /\ FileEnds =>
          /\ ing.pc \in {"upload", "createJob", "final", "catch"}
          /\ ing.inflight = {}
          /\ IF ing.queue > 1
             THEN ing'.pc = "upload" /\ ing'.queue = ing.queue - 1
             ELSE ing'.pc = "reload"
    /\ (ing.pc \notin {"idle", "reload"} /\ ing'.pc = "reload") =>
          ing.queue = 1
    /\ (ing.pc # "idle" /\ storage' # storage) =>
          /\ ing.pc = "upload"
          /\ ing'.pc = "createJob"
          /\ ing'.queue = ing.queue
          /\ storage' = storage \cup {ing'.path}

\* C39: handleFileSelect uploads and ingests the selected files one after
\* another.  The upload of the next file starts in the step in which the run
\* of the current file ends (its upload failed, or processInvoiceFile
\* returned or threw, with no create left in flight); a failure of a file
\* does not end the selection: every file of the selection has its upload
\* started, and a file whose upload succeeded is ingested.
C39_FilesOneAfterAnother == []C39_Inv /\ [][C39_Step]_vars

\* the second file of a selection is being ingested after the first failed
C39_Witness ==
    /\ Len(uploadProgress) = 2
    /\ ing.queue = 1
    /\ ing.pc = "settle"
    /\ uploadProgress[1].progress = 0
    /\ ~uploadProgress[1].isUploading

====
